---- MODULE Spec2Model ----
(***************************************************************************)
(* Model of the risk-classification engine of the AquaAI API               *)
(* (src/api/services/recomendacion.py), of the threshold configuration     *)
(* it reads (src/api/routers/recomendaciones.py, src/api/data/database.py) *)
(* and of the forecast engine (src/api/services/prediction.py).            *)
(*                                                                         *)
(* Numbers.  Levels (msnm) and the MAE are integers.  Relative thresholds  *)
(* are held in percent (0.95 is 95), so every absolute threshold           *)
(* ratio * nivel_maximo is held in hundredths of a level unit and a level  *)
(* v is compared with a threshold u as 100*v against u.  Quotients         *)
(* (the mean, the breach probability) are fractions [num, den] with        *)
(* den > 0.  Arithmetic is exact: float rounding is not modelled.          *)
(*                                                                         *)
(* Optional values: None is the empty sequence, a present value x is <<x>>.*)
(***************************************************************************)
EXTENDS Integers, Sequences, FiniteSets, TLC

VARIABLES
    pc,             \* position inside evaluar_riesgo_embalse / the API process
    prediccion,     \* the dict built at recomendacion.py:154-168
    ultimo_nivel,   \* what _obtener_ultimo_nivel reads from saih_nivel_embalse
    config,         \* the configuration handed to metrics and classifier
    nivel_maximo,   \* capacity of the station (float(info['nivel_maximo']))
    metricas,       \* result of _calcular_metricas_prediccion
    clasificacion,  \* result of _clasificar_riesgo
    pool,           \* DatabaseConnection.pool
    recomendacion_config,   \* table recomendacion_config, by codigo_saih
    config_respuesta,       \* outcome of the last configuration request
    servicio,       \* the PredictionService singleton (its attributes)
    series,         \* what DataLoader.get_embalse_data finds, by codigo_saih
    rng,            \* state of the global generator behind np.random.normal
    resultado,      \* the last call into the forecast engine and its outcome
    evaluacion,     \* outcome of the last evaluar_riesgo_embalse call
    plantilla_recomendacion,    \* table plantilla_recomendacion
    textos,         \* result of _generar_textos_recomendacion
    llamadas,       \* forecast requests in flight in the API process, by client
    recomendacion_operativa,    \* table recomendacion_operativa (a set of rows)
    ahora,          \* NOW() of the database, in hours
    cache,          \* the LRUCache instance _cache (enabled, cache, stats)
    hilos,          \* the calls into _cache in progress, by thread
    tiempo,         \* time.time(), in seconds
    rate_limit,     \* the RateLimitMiddleware instance (enabled, requests)
    despachos,      \* the calls of RateLimitMiddleware.dispatch, by request
    usos            \* history of the calls into _cache (not program state)

vars == <<pc, prediccion, ultimo_nivel, config, nivel_maximo, metricas,
          clasificacion, pool, recomendacion_config, config_respuesta,
          servicio, series, rng, resultado, evaluacion,
          plantilla_recomendacion, textos, llamadas,
          recomendacion_operativa, ahora, cache, hilos, tiempo, rate_limit,
          despachos, usos>>

varsEval == <<prediccion, ultimo_nivel, config, nivel_maximo, metricas,
              clasificacion>>
varsCfg  == <<pool, recomendacion_config, config_respuesta>>
varsPred == <<servicio, series, rng, resultado>>
varsTxt  == <<plantilla_recomendacion, textos>>
varsMid  == <<cache, hilos, tiempo, rate_limit, despachos, usos>>
varsMas  == <<llamadas, recomendacion_operativa, ahora, varsMid>>

----------------------------------------------------------------------------
(* Bounds and input domains *)

\* longest operational track enumerated exhaustively
MaxLen == 2

\* last hour the clock of the database reaches
MaxHora == 10

\* 'horizonte_dias': 7 of the default configuration
HorizonteDefecto == 7

None == <<>>
Some(x) == <<x>>
Val(o) == o[1]

\* Python truthiness of an optional number: None and 0 are falsy
Truthy(o) == o # None /\ Val(o) # 0

Abs(x) == IF x < 0 THEN -x ELSE x

\* NivelRiesgo
BAJO == "BAJO"
MODERADO == "MODERADO"
ALTO == "ALTO"
SEQUIA == "SEQUIA"
NivelRiesgo == {BAJO, MODERADO, ALTO, SEQUIA}

\* TendenciaNivel
SUBIENDO == "subiendo"
BAJANDO == "bajando"
ESTABLE == "estable"
TendenciaNivel == {SUBIENDO, BAJANDO, ESTABLE}

\* Relative thresholds in percent; RecomendacionConfigCreate accepts each of
\* them anywhere in [0.0, 1.0], in any order.
Ratios == {0, 30, 80, 95, 100}

ConfigDefecto ==
    [id |-> None,
     umbral_alto_relativo |-> 95,
     umbral_moderado_relativo |-> 80,
     umbral_minimo_relativo |-> 30,
     horizonte_dias |-> 7,
     k_sigma |-> 2]

\* RecomendacionConfigCreate: what pydantic accepts for the threshold fields
CamposConfigCreate(ratios) ==
    [umbral_alto_relativo : ratios,
     umbral_moderado_relativo : ratios,
     umbral_minimo_relativo : ratios,
     horizonte_dias : {7},
     k_sigma : {2}]

ConFila(c, ident) ==
    [id |-> ident,
     umbral_alto_relativo |-> c.umbral_alto_relativo,
     umbral_moderado_relativo |-> c.umbral_moderado_relativo,
     umbral_minimo_relativo |-> c.umbral_minimo_relativo,
     horizonte_dias |-> c.horizonte_dias,
     k_sigma |-> c.k_sigma]

\* drought_ratio < moderate_ratio < high_ratio <= 1.0
ConfigValida(c) ==
    /\ c.umbral_minimo_relativo < c.umbral_moderado_relativo
    /\ c.umbral_moderado_relativo < c.umbral_alto_relativo
    /\ c.umbral_alto_relativo <= 100

SeqsUpTo(S, n) == UNION {[1..k -> S] : k \in 0..n}
Plana(v, n) == [i \in 1..n |-> v]

\* Tracks: every track of at most MaxLen days, and the flat tracks of the
\* default horizon.  The empty track is the DataFrame with no rows.
Series(S) == SeqsUpTo(S, MaxLen) \cup {Plana(v, HorizonteDefecto) : v \in S}

\* A station of capacity 50: levels on, between and beyond its thresholds
NivelesGrid == {0, 15, 25, 40, 50, 51}
\* The station of capacity 654 with the levels 10 and 650
NivelesEjemplo == {10, 650}

Maes == {None, Some(1), Some(3)}

\* Where the current level comes from: the observed column of the points
\* (the same value on every day, or missing) and the last level of the
\* database.
FuentesNivelActual ==
    {[nivel_real |-> None, ultimo |-> None],
     [nivel_real |-> None, ultimo |-> Some(50)],
     [nivel_real |-> Some(0), ultimo |-> Some(-50)],
     [nivel_real |-> Some(10), ultimo |-> Some(50)]}

Puntos(serie, real) ==
    [i \in 1..Len(serie) |-> [pred_aemet_ruido |-> serie[i], nivel_real |-> real]]

Entradas ==
    [serie : Series(NivelesGrid), nivel_maximo : {50},
     config : {ConFila(c, Some(1)) : c \in CamposConfigCreate(Ratios)},
     mae : Maes, fuente : FuentesNivelActual]
    \cup
    [serie : Series(NivelesEjemplo), nivel_maximo : {654},
     config : {ConFila(c, Some(1)) : c \in CamposConfigCreate(Ratios)},
     mae : Maes, fuente : FuentesNivelActual]

----------------------------------------------------------------------------
(* RecomendacionService: metrics *)

RECURSIVE Suma(_)
Suma(s) == IF s = <<>> THEN 0 ELSE Head(s) + Suma(Tail(s))

NpMin(s) == CHOOSE v \in {s[i] : i \in 1..Len(s)} : \A i \in 1..Len(s) : v <= s[i]
NpMax(s) == CHOOSE v \in {s[i] : i \in 1..Len(s)} : \A i \in 1..Len(s) : v >= s[i]

\* recomendacion.py:295-299: the first truthy nivel_real of the points
PrimerNivelReal(puntos) ==
    LET idx == {i \in 1..Len(puntos) : Truthy(puntos[i].nivel_real)}
    IN  IF idx = {} THEN None
        ELSE puntos[CHOOSE i \in idx : \A j \in idx : i <= j].nivel_real

\* _calcular_tendencia with an exclusive deadband
_calcular_tendencia_estricta(pred_array, nivel_actual) ==
    LET nivel_final == pred_array[Len(pred_array)]
        diferencia == nivel_final - nivel_actual
        umbral_estable == Abs(nivel_actual * 2)
    IN  IF Abs(diferencia) * 100 < umbral_estable THEN ESTABLE
        ELSE IF diferencia > 0 THEN SUBIENDO
        ELSE BAJANDO

\* recomendacion.py:362-377
_calcular_tendencia(pred_array, nivel_actual) ==
    LET nivel_final == pred_array[Len(pred_array)]
        diferencia == nivel_final - nivel_actual
        \* umbral_estable = abs(nivel_actual * 0.02), held in hundredths
        umbral_estable == Abs(nivel_actual * 2)
    IN  IF Abs(diferencia) * 100 <= umbral_estable THEN ESTABLE
        ELSE IF diferencia > 0 THEN SUBIENDO
        ELSE BAJANDO

\* The upper end of the band widened by the MAE alone, k_sigma dropped
NivelMaxEsperadoSinK(nivel_max, k_sigma, mae) ==
    IF Truthy(mae) THEN nivel_max + Val(mae) ELSE nivel_max

\* recomendacion.py:324-329, upper end of the band
NivelMaxEsperado(nivel_max, k_sigma, mae) ==
    IF Truthy(mae) THEN nivel_max + k_sigma * Val(mae) ELSE nivel_max

\* recomendacion.py:324-329, lower end of the band
NivelMinEsperado(nivel_min, k_sigma, mae) ==
    IF Truthy(mae) THEN nivel_min - k_sigma * Val(mae) ELSE nivel_min

\* recomendacion.py:274-345
_calcular_metricas_prediccion(pred, cfg, ultimo) ==
    LET puntos == pred.predicciones
        pred_serie == [i \in 1..Len(puntos) |-> puntos[i].pred_aemet_ruido]
        real == PrimerNivelReal(puntos)
    IN  IF pred_serie = <<>>
        THEN [estado |-> "ValueError"]
        ELSE
        LET nivel_actual ==
                IF real # None THEN Val(real)
                ELSE IF ultimo # None THEN Val(ultimo)
                ELSE pred_serie[1]
            nivel_min == NpMin(pred_serie)
            nivel_max == NpMax(pred_serie)
            mae == pred.mae_historico
            k_sigma == cfg.k_sigma
        IN  [estado |-> "ok",
             nivel_actual |-> nivel_actual,
             nivel_min |-> nivel_min,
             nivel_max |-> nivel_max,
             nivel_medio |-> [num |-> Suma(pred_serie), den |-> Len(pred_serie)],
             nivel_max_esperado |-> NivelMaxEsperado(nivel_max, k_sigma, mae),
             nivel_min_esperado |-> NivelMinEsperado(nivel_min, k_sigma, mae),
             mae |-> mae,
             tendencia |-> _calcular_tendencia(pred_serie, nivel_actual),
             serie_prediccion |-> pred_serie]

----------------------------------------------------------------------------
(* RecomendacionService: classification *)

RECURSIVE Mcd(_, _)
Mcd(a, b) == IF b = 0 THEN a ELSE Mcd(b, a % b)

\* A quotient num/den of the classifier, den # 0, as the fraction in lowest
\* terms with den > 0 (one value has one representation)
Fraccion(num, den) ==
    LET g == Mcd(Abs(num), Abs(den))
        s == IF den < 0 THEN -1 ELSE 1
    IN  [num |-> s * (num \div g), den |-> s * (den \div g)]

\* The quotient without the cap at 1
Min1SinTope(num, den) == Fraccion(num, den)

\* min(1.0, num/den)
Min1(num, den) ==
    LET f == Fraccion(num, den)
    IN  IF f.num >= f.den THEN [num |-> 1, den |-> 1] ELSE f

\* _calcular_dias_hasta_umbral returning the last crossing day
_calcular_dias_ultimo_cruce(serie, umbral, direccion) ==
    LET cruza == {dia \in 1..Len(serie) :
                    \/ direccion = "alto" /\ 100 * serie[dia] >= umbral
                    \/ direccion = "bajo" /\ 100 * serie[dia] <= umbral}
    IN  IF cruza = {} THEN None
        ELSE Some(CHOOSE dia \in cruza : \A otro \in cruza : dia >= otro)

\* _calcular_dias_hasta_umbral with the direction ignored (always upward)
_calcular_dias_sin_direccion(serie, umbral, direccion) ==
    LET cruza == {dia \in 1..Len(serie) : 100 * serie[dia] >= umbral}
    IN  IF cruza = {} THEN None
        ELSE Some(CHOOSE dia \in cruza : \A otro \in cruza : dia <= otro)

\* _calcular_dias_hasta_umbral counting the days from 0
_calcular_dias_desde_cero(serie, umbral, direccion) ==
    LET cruza == {dia \in 1..Len(serie) :
                    \/ direccion = "alto" /\ 100 * serie[dia] >= umbral
                    \/ direccion = "bajo" /\ 100 * serie[dia] <= umbral}
    IN  IF cruza = {} THEN None
        ELSE Some((CHOOSE dia \in cruza : \A otro \in cruza : dia <= otro) - 1)

\* recomendacion.py:450-470; umbral in hundredths; the day is counted from 1
_calcular_dias_hasta_umbral(serie, umbral, direccion) ==
    LET cruza == {dia \in 1..Len(serie) :
                    \/ direccion = "alto" /\ 100 * serie[dia] >= umbral
                    \/ direccion = "bajo" /\ 100 * serie[dia] <= umbral}
    IN  IF cruza = {} THEN None
        ELSE Some(CHOOSE dia \in cruza : \A otro \in cruza : dia <= otro)

\* The verdict dict of recomendacion.py:439-448
Veredicto(nivel, severidad, color, prob, dias, u_alto, u_moderado, u_minimo) ==
    [estado |-> "ok",
     nivel_riesgo |-> nivel,
     nivel_severidad |-> severidad,
     color_hex |-> color,
     probabilidad_superar |-> prob,
     dias_hasta_umbral |-> dias,
     umbral_alto |-> u_alto,
     umbral_moderado |-> u_moderado,
     umbral_minimo |-> u_minimo]

\* recomendacion.py:379-448
_clasificar_riesgo(m, cfg, capacidad) ==
    LET umbral_alto == cfg.umbral_alto_relativo * capacidad
        umbral_moderado == cfg.umbral_moderado_relativo * capacidad
        umbral_minimo == cfg.umbral_minimo_relativo * capacidad
        nivel_max_esp == m.nivel_max_esperado
        nivel_min_esp == m.nivel_min_esperado
    IN  IF 100 * nivel_max_esp >= umbral_alto
        THEN IF 100 * capacidad - umbral_alto = 0
             THEN [estado |-> "ZeroDivisionError"]
             ELSE Veredicto(ALTO, 3, "#FF5722",
                      Min1(100 * nivel_max_esp - umbral_alto,
                           100 * capacidad - umbral_alto),
                      _calcular_dias_hasta_umbral(m.serie_prediccion, umbral_alto, "alto"),
                      umbral_alto, umbral_moderado, umbral_minimo)
        ELSE IF 100 * nivel_min_esp <= umbral_minimo
        THEN IF umbral_minimo = 0
             THEN [estado |-> "ZeroDivisionError"]
             ELSE Veredicto(SEQUIA, 4, "#795548",
                      Min1(umbral_minimo - 100 * nivel_min_esp, umbral_minimo),
                      _calcular_dias_hasta_umbral(m.serie_prediccion, umbral_minimo, "bajo"),
                      umbral_alto, umbral_moderado, umbral_minimo)
        ELSE IF 100 * nivel_max_esp >= umbral_moderado
        THEN IF umbral_alto - umbral_moderado = 0
             THEN [estado |-> "ZeroDivisionError"]
             ELSE Veredicto(MODERADO, 2, "#FFC107",
                      Min1(100 * nivel_max_esp - umbral_moderado,
                           umbral_alto - umbral_moderado),
                      _calcular_dias_hasta_umbral(m.serie_prediccion, umbral_moderado, "alto"),
                      umbral_alto, umbral_moderado, umbral_minimo)
        ELSE Veredicto(BAJO, 1, "#4CAF50", [num |-> 0, den |-> 1], None,
                       umbral_alto, umbral_moderado, umbral_minimo)

----------------------------------------------------------------------------
(* Steps 5 and 6 of evaluar_riesgo_embalse *)

Pendiente == [estado |-> "pendiente"]

\* No configuration request has been answered yet
SinRespuesta ==
    [op |-> "ninguna", codigo_saih |-> None, estado |-> "pendiente", config |-> None]

\* recomendacion.py:175
CalcularMetricas ==
    /\ pc = "inicio"
    /\ metricas' = _calcular_metricas_prediccion(prediccion, config, ultimo_nivel)
    /\ pc' = IF metricas'.estado = "ok" THEN "metricas" ELSE "error"
    /\ UNCHANGED <<prediccion, ultimo_nivel, config, nivel_maximo, clasificacion>>
    /\ UNCHANGED <<varsCfg, varsPred, varsTxt, evaluacion>>
    /\ UNCHANGED varsMas

\* recomendacion.py:178
ClasificarRiesgo ==
    /\ pc = "metricas"
    /\ clasificacion' = _clasificar_riesgo(metricas, config, nivel_maximo)
    /\ pc' = IF clasificacion'.estado = "ok" THEN "clasificado" ELSE "error"
    /\ UNCHANGED <<prediccion, ultimo_nivel, config, nivel_maximo, metricas>>
    /\ UNCHANGED <<varsCfg, varsPred, varsTxt, evaluacion>>
    /\ UNCHANGED varsMas

\* The prediction dict of recomendacion.py:154-168 for one input
Prediccion(e) ==
    [predicciones |-> Puntos(e.serie, e.fuente.nivel_real),
     mae_historico |-> e.mae]

----------------------------------------------------------------------------
(* Forecast engine: src/api/services/prediction.py                         *)
(*                                                                         *)
(* Dates are day numbers 1..MaxFecha.  A normalised value is held in       *)
(* units of 1/600 (1.0 is 600) and a forecast level in units of 1/600 of a *)
(* level unit, so that the scaling, the clipping to [0, 1] and the mean    *)
(* over the future days are exact integer arithmetic.  The float32 cast of *)
(* the window (prediction.py:167) is not modelled.                         *)

\* last day a record or an anchor may carry
MaxFecha == 5
\* LOOKBACK and HORIZON of the checkpoint (prediction.py:66-67)
CkptLookback == 2
CkptHorizon == 2
\* period of the noise generator
Periodo == 3

\* python s[:n] and DataFrame.head(n): a negative n drops the last -n rows
Head_(s, n) ==
    SubSeq(s, 1, IF n >= 0 THEN (IF n < Len(s) THEN n ELSE Len(s))
                 ELSE (IF Len(s) + n > 0 THEN Len(s) + n ELSE 0))

\* DataFrame.tail(n) for n >= 0
Tail_(s, n) == SubSeq(s, (IF Len(s) > n THEN Len(s) - n + 1 ELSE 1), Len(s))

\* DataFrame.sort_values('fecha'): stable, ascending
RECURSIVE sort_values(_)
sort_values(df) ==
    IF df = <<>> THEN <<>>
    ELSE LET k == CHOOSE i \in 1..Len(df) :
                    /\ \A o \in 1..Len(df) : df[i].fecha <= df[o].fecha
                    /\ \A o \in 1..(i - 1) : df[o].fecha # df[i].fecha
         IN  <<df[k]>> \o sort_values(SubSeq(df, 1, k - 1) \o SubSeq(df, k + 1, Len(df)))

\* A row of the join of loader.py:176-193 for day d: the level is always
\* there, the precipitation is NULL where the LEFT JOIN finds nothing
Registro(d) ==
    [fecha |-> d,
     nivel |-> IF d = 1 THEN 15 ELSE 20 + 5 * d,
     precipitacion |-> IF d % 3 = 0 THEN None ELSE Some(d % 4)]

RECURSIVE FilasDe(_)
FilasDe(S) ==
    IF S = {} THEN <<>>
    ELSE LET d == CHOOSE x \in S : TRUE IN <<Registro(d)>> \o FilasDe(S \ {d})

\* loader.py:198-211: the rows of a station as a frame sorted by date
DataFrameDe(S) == sort_values(FilasDe(S))

\* Stations a forecast may be asked for: E001 has a scaler and series,
\* E002 has a scaler and no rows, E999 has neither
CodigosPrediccion == {"E001", "E002", "E999"}

\* The stores get_embalse_data may find: one row per day at most, and at
\* most two days of 1..MaxFecha without a row
Almacenes ==
    {[c \in CodigosPrediccion |->
        IF c = "E001" THEN Some(DataFrameDe(S)) ELSE None] :
     S \in {T \in SUBSET (1..MaxFecha) : Cardinality(T) + 2 >= MaxFecha}}

\* loader.py:158-211
get_embalse_data(ser, codigo_saih) ==
    IF ser[codigo_saih] = None
    THEN [estado |-> "error", clase |-> "ValueError",
          mensaje |-> "no encontrado en la base de datos"]
    ELSE [estado |-> "ok", df |-> Val(ser[codigo_saih])]

\* A fitted MinMaxScaler: data_min_ and data_max_ by column of hist_cols
ScalerE001 == [data_min_ |-> <<20, 0>>, data_max_ |-> <<70, 10>>]
ScalerE002 == [data_min_ |-> <<30, 0>>, data_max_ |-> <<40, 20>>]

\* sklearn: scale_ = 1 / (data_max_ - data_min_), min_ = -data_min_ * scale_
scale_(scaler, j) == 600 \div (scaler.data_max_[j] - scaler.data_min_[j])
min_(scaler, j) == (0 - scaler.data_min_[j]) * scale_(scaler, j)

\* MinMaxScaler.transform, column j scaled with the min and max of column j
MinMaxScaler_transform(scaler, X) ==
    [k \in 1..Len(X) |->
        [j \in 1..Len(X[k]) |-> X[k][j] * scale_(scaler, j) + min_(scaler, j)]]

\* The same inverse with every column read through the range of the
\* mirrored column
MinMaxScaler_inverse_transform_otra_columna(scaler, X) ==
    [k \in 1..Len(X) |->
        [j \in 1..Len(X[k]) |->
            (600 * (X[k][j] - min_(scaler, Len(X[k]) + 1 - j)))
                \div scale_(scaler, Len(X[k]) + 1 - j)]]

\* MinMaxScaler.inverse_transform: (X - min_) / scale_, in 1/600 of a unit
MinMaxScaler_inverse_transform(scaler, X) ==
    [k \in 1..Len(X) |->
        [j \in 1..Len(X[k]) |->
            (600 * (X[k][j] - min_(scaler, j))) \div scale_(scaler, j)]]

\* PredictionService.__init__ (prediction.py:47-56)
ServicioNuevo ==
    [model |-> None, scalers |-> None, lookback |-> 90, horizon |-> 180,
     hist_cols |-> <<>>]

\* What load_model leaves (prediction.py:63-89)
ServicioCargado ==
    [model |-> Some("LSTMSeq2Seq"),
     scalers |-> Some([c \in {"E001", "E002"} |->
                        IF c = "E001" THEN ScalerE001 ELSE ScalerE002]),
     lookback |-> CkptLookback, horizon |-> CkptHorizon,
     hist_cols |-> <<"nivel", "precipitacion">>]

\* prediction.py:122-126 and 129: the hist_cols columns, NaN filled with 0
Columnas(df, hist_cols) ==
    [k \in 1..Len(df) |->
        [j \in 1..Len(hist_cols) |->
            IF hist_cols[j] = "nivel" THEN df[k].nivel
            ELSE IF df[k].precipitacion = None THEN 0
            ELSE Val(df[k].precipitacion)]]

\* The k-th number the generator yields from state s: -0.1, 0 or 0.1
NumeroDe(s) == ((s % 3) - 1) * 60

\* A generator whose numbers also depend on what the service did before
np_random_normal_sin_semilla(estado, n, m) ==
    [i \in 1..n |-> [j \in 1..m |->
        NumeroDe(estado + (i - 1) * m + (j - 1)
                 + (IF resultado.op = "ninguna" THEN 0 ELSE 1))]]

\* np.random.normal(0.0, sigma, size=(n, m)) read from generator state
np_random_normal(estado, n, m) ==
    [i \in 1..n |-> [j \in 1..m |->
        NumeroDe((estado + (i - 1) * m + (j - 1)) % Periodo)]]

\* The generator state after a draw of n numbers
Avanzar(estado, n) == (estado + n) % Periodo

np_clip(v) == IF v < 0 THEN 0 ELSE IF v > 600 THEN 600 ELSE v

\* ndarray.mean(axis=0) of an n x m matrix with n >= 1
MeanAxis0(M, m) ==
    [j \in 1..m |-> Suma([i \in 1..Len(M) |-> M[i][j]]) \div Len(M)]

\* A tiling that repeats the summary once too few
np_tile_corto(v, n) == [k \in 1..(n - 1) |-> v]

\* np.tile(v, (n, 1))
np_tile(v, n) == [k \in 1..n |-> v]

\* np.hstack of two matrices with the same number of rows
np_hstack(A, B) ==
    [k \in 1..Len(A) |-> A[k] \o (IF k <= Len(B) THEN B[k] ELSE <<>>)]

ErrorPrediccion(clase, mensaje, estado) ==
    [estado |-> "error", clase |-> clase, mensaje |-> mensaje, rng |-> estado]

\* A history block that takes the first rows at or before the anchor
df_hist_primeras(svc, df_est, fecha_dt) ==
    Head_(SelectSeq(df_est, LAMBDA r : r.fecha <= fecha_dt), svc.lookback)

\* prediction.py:113
df_hist_de(svc, df_est, fecha_dt) ==
    Tail_(SelectSeq(df_est, LAMBDA r : r.fecha <= fecha_dt), svc.lookback)

\* prediction.py:132
df_fut_de(df_est, fecha_dt, horizonte) ==
    Head_(sort_values(SelectSeq(df_est, LAMBDA r : r.fecha > fecha_dt)), horizonte)

\* A builder that summarises whatever future rows there are
HayFuturoSinUmbral(df_fut, horizonte) == Len(df_fut) >= 0

\* prediction.py:140
HayFuturo(df_fut, horizonte) == Len(df_fut) >= horizonte

\* prediction.py:91-167
_build_window(svc, df_est, fecha_dt, scaler, mode, horizonte, estado) ==
    LET df_hist == df_hist_de(svc, df_est, fecha_dt)
        hist_vals == MinMaxScaler_transform(scaler, Columnas(df_hist, svc.hist_cols))
        df_fut == df_fut_de(df_est, fecha_dt, horizonte)
        m == Len(svc.hist_cols)
        conRuido == mode = "aemet_ruido" /\ HayFuturo(df_fut, horizonte)
        fut_vals == MinMaxScaler_transform(scaler, Columnas(df_fut, svc.hist_cols))
        noise == np_random_normal(estado, Len(df_fut), m)
        fut_summary ==
            IF conRuido
            THEN MeanAxis0([i \in 1..Len(df_fut) |->
                              [j \in 1..m |-> np_clip(fut_vals[i][j] + noise[i][j])]], m)
            ELSE [j \in 1..m |-> 0]
        fut_tiled == np_tile(fut_summary, svc.lookback)
    IN  IF Len(df_hist) < svc.lookback
        THEN ErrorPrediccion("ValueError", "No hay suficientes datos previos", estado)
        ELSE IF mode \notin {"hist", "aemet_ruido"}
        THEN ErrorPrediccion("ValueError", "Modo no soportado", estado)
        ELSE IF conRuido /\ Len(df_fut) = 0
        THEN ErrorPrediccion("ValueError", "Found array with 0 sample(s)", estado)
        ELSE [estado |-> "ok",
              x |-> np_hstack(hist_vals, fut_tiled),
              rng |-> IF conRuido THEN Avanzar(estado, Len(df_fut) * m) ELSE estado]

\* Sum of every cell of a window
RECURSIVE SumaCeldas(_)
SumaCeldas(x) == IF x = <<>> THEN 0 ELSE Suma(Head(x)) + SumaCeldas(Tail(x))

\* prediction.py:37-41 in eval mode: the weights come from the checkpoint,
\* so the network is any fixed function of the window yielding `horizon`
\* values; this one reads every cell of the window
LSTMSeq2Seq_forward(svc, x) ==
    [i \in 1..svc.horizon |-> SumaCeldas(x) + 60 * i]

\* prediction.py:219
pred_scaled_de(svc, x, horizonte) == Head_(LSTMSeq2Seq_forward(svc, x), horizonte)

\* list.index
Index(s, v) == CHOOSE j \in 1..Len(s) : s[j] = v /\ \A o \in 1..(j - 1) : s[o] # v

\* prediction.py:222-225: the level column of the inverse of a matrix that
\* is zero except for that column
Desnormalizar(svc, scaler, pred_scaled) ==
    LET nivel_idx == Index(svc.hist_cols, "nivel")
        dummy == [k \in 1..Len(pred_scaled) |->
                    [j \in 1..Len(svc.hist_cols) |->
                        IF j = nivel_idx THEN pred_scaled[k] ELSE 0]]
        inv == MinMaxScaler_inverse_transform(scaler, dummy)
    IN  [k \in 1..Len(pred_scaled) |-> inv[k][nivel_idx]]

\* A join that attaches the level recorded one day earlier
NivelRealDesplazado(df_real, d) ==
    SelectSeq(df_real, LAMBDA r : r.fecha = d - 1)

\* The rows of df_real a forecast date matches in the merge
NivelRealDe(df_real, d) ==
    SelectSeq(df_real, LAMBDA r : r.fecha = d)

\* prediction.py:244: DataFrame.merge(how='left', on='fecha')
RECURSIVE MergeLeft(_, _)
MergeLeft(out, df_real) ==
    IF out = <<>> THEN <<>>
    ELSE LET fila == Head(out)
             pares == NivelRealDe(df_real, fila.fecha)
         IN  (IF pares = <<>>
              THEN <<[fecha |-> fila.fecha, pred_hist |-> fila.pred_hist,
                      pred |-> fila.pred, nivel_real |-> None]>>
              ELSE [k \in 1..Len(pares) |->
                      [fecha |-> fila.fecha, pred_hist |-> fila.pred_hist,
                       pred |-> fila.pred, nivel_real |-> Some(pares[k].nivel)]])
             \o MergeLeft(Tail(out), df_real)

\* A frame that keeps as many rows as the tracks have, dated or not
pd_DataFrame_sin_control(fechas_pred, p1, p2, estado) ==
    [estado |-> "ok",
     filas |-> [i \in 1..Len(p1) |->
                  [fecha |-> IF i <= Len(fechas_pred) THEN fechas_pred[i] ELSE 0,
                   pred_hist |-> p1[i], pred |-> p2[i]]],
     rng |-> estado]

\* prediction.py:237-241: pd.DataFrame of three columns, which must have
\* the same length
pd_DataFrame(fechas_pred, p1, p2, estado) ==
    IF Len(fechas_pred) # Len(p1) \/ Len(fechas_pred) # Len(p2)
    THEN ErrorPrediccion("ValueError", "All arrays must be of the same length", estado)
    ELSE [estado |-> "ok",
          filas |-> [i \in 1..Len(fechas_pred) |->
                       [fecha |-> fechas_pred[i], pred_hist |-> p1[i], pred |-> p2[i]]],
          rng |-> estado]

\* A date check that asks for no lookback after the earliest record
FechaTempranaSinLookback(svc, df_est, fecha_dt) ==
    fecha_dt < df_est[1].fecha

\* A date check that also turns away the first day with a full lookback
FechaTempranaEstricta(svc, df_est, fecha_dt) ==
    fecha_dt <= df_est[1].fecha + svc.lookback

\* prediction.py:203-204: df_est is sorted, its first row holds the minimum
FechaTemprana(svc, df_est, fecha_dt) ==
    fecha_dt < df_est[1].fecha + svc.lookback

MensajeFechaIgualHistorial == "No hay suficientes datos previos"
MensajeFecha == "es demasiado temprana"

\* prediction.py:210-246 once station, series and date have been accepted
Inferir(svc, df_est, scaler, fecha_dt, horizonte, estado) ==
    LET w1 == _build_window(svc, df_est, fecha_dt, scaler, "hist", horizonte, estado)
        s1 == pred_scaled_de(svc, w1.x, horizonte)
        w2 == _build_window(svc, df_est, fecha_dt, scaler, "aemet_ruido", horizonte, w1.rng)
        s2 == pred_scaled_de(svc, w2.x, horizonte)
        fechas_pred == [i \in 1..(IF horizonte > 0 THEN horizonte ELSE 0) |-> fecha_dt + i]
        df_real == SelectSeq(df_est, LAMBDA r :
                                r.fecha > fecha_dt /\ r.fecha <= fecha_dt + horizonte)
        out == pd_DataFrame(fechas_pred, Desnormalizar(svc, scaler, s1),
                            Desnormalizar(svc, scaler, s2), w2.rng)
    IN  IF w1.estado # "ok" THEN w1
        ELSE IF Len(s1) = 0
        THEN ErrorPrediccion("ValueError", "Found array with 0 sample(s)", w1.rng)
        ELSE IF w2.estado # "ok" THEN w2
        ELSE IF out.estado # "ok" THEN out
        ELSE [estado |-> "ok", filas |-> MergeLeft(out.filas, df_real), rng |-> w2.rng]

\* prediction.py:169-246
predecir_embalse(svc, ser, estado, codigo_saih, fecha, horizonte) ==
    IF svc.model = None
    THEN ErrorPrediccion("RuntimeError", "Modelo no cargado", estado)
    ELSE IF svc.scalers = None
    THEN ErrorPrediccion("TypeError", "argument of type 'NoneType' is not iterable",
                         estado)
    ELSE IF codigo_saih \notin DOMAIN Val(svc.scalers)
    THEN ErrorPrediccion("ValueError", "No hay scaler para el embalse", estado)
    ELSE IF get_embalse_data(ser, codigo_saih).estado # "ok"
    THEN ErrorPrediccion("ValueError", get_embalse_data(ser, codigo_saih).mensaje, estado)
    ELSE IF FechaTemprana(svc, get_embalse_data(ser, codigo_saih).df, fecha)
    THEN ErrorPrediccion("ValueError", MensajeFecha, estado)
    ELSE Inferir(svc, get_embalse_data(ser, codigo_saih).df,
                 Val(svc.scalers)[codigo_saih], fecha, horizonte, estado)

\* No call into the forecast engine has been made.  A call is recorded with
\* its arguments, the generator state and the service it found, and its
\* outcome
SinLlamada ==
    [op |-> "ninguna", codigo_saih |-> "", fecha |-> 0, horizonte |-> 0,
     mode |-> "", semilla |-> 0, servicio |-> ServicioNuevo,
     salida |-> [estado |-> "pendiente"]]

\* Horizons a caller passes: below 1, within the output length, beyond it
Horizontes == 0..(CkptHorizon + 1)

\* Where a load may stop: nowhere, reading the checkpoint (line 63),
\* restoring the weights into the network built at line 76 (line 85), or
\* reading the scalers (line 89)
FallosCarga == {"ninguno", "torch.load", "load_state_dict", "np.load"}

\* prediction.py:58-89: the attributes when the call returns or raises
load_model(svc, falla) ==
    IF svc.model # None THEN svc
    ELSE IF falla = "torch.load" THEN svc
    ELSE IF falla = "ninguno" THEN ServicioCargado
    ELSE [ServicioCargado EXCEPT !.scalers = svc.scalers]

\* prediction.py:58-89
LoadModel(falla) ==
    /\ servicio' = load_model(servicio, falla)
    /\ UNCHANGED <<series, rng, resultado, evaluacion>>
    /\ UNCHANGED <<pc, varsEval, varsCfg, varsTxt>>
    /\ UNCHANGED varsMas

\* Before a call the caller fixes the state of the generator that
\* prediction.py:152 reads
Sembrar(s) ==
    /\ resultado.op = "ninguna"
    /\ rng' = s
    /\ UNCHANGED <<servicio, series, resultado, evaluacion>>
    /\ UNCHANGED <<pc, varsEval, varsCfg, varsTxt>>
    /\ UNCHANGED varsMas

\* The caller has looked at the outcome of its call and lets go of it
Descartar ==
    /\ resultado.op # "ninguna"
    /\ resultado' = SinLlamada
    /\ UNCHANGED <<servicio, series, rng, evaluacion>>
    /\ UNCHANGED <<pc, varsEval, varsCfg, varsTxt>>
    /\ UNCHANGED varsMas

\* A call of _build_window with the frame and the scaler of station E001,
\* by a caller that holds no outcome of an earlier call
BuildWindow(mode, fecha, horizonte) ==
    /\ resultado.op = "ninguna"
    /\ servicio.model # None
    /\ servicio.scalers # None
    /\ LET w == _build_window(servicio, Val(series["E001"]), fecha,
                              Val(servicio.scalers)["E001"], mode, horizonte, rng)
       IN  /\ resultado' = [op |-> "_build_window", codigo_saih |-> "E001",
                            fecha |-> fecha, horizonte |-> horizonte,
                            mode |-> mode, semilla |-> rng,
                            servicio |-> servicio, salida |-> w]
           /\ rng' = w.rng
    /\ UNCHANGED <<servicio, series, evaluacion>>
    /\ UNCHANGED <<pc, varsEval, varsCfg, varsTxt>>
    /\ UNCHANGED varsMas

\* A call of predecir_embalse by a caller that holds no earlier outcome
PredecirEmbalse(codigo_saih, fecha, horizonte) ==
    /\ resultado.op = "ninguna"
    /\ LET r == predecir_embalse(servicio, series, rng, codigo_saih, fecha, horizonte)
       IN  /\ resultado' = [op |-> "predecir_embalse", codigo_saih |-> codigo_saih,
                            fecha |-> fecha, horizonte |-> horizonte,
                            mode |-> "", semilla |-> rng,
                            servicio |-> servicio, salida |-> r]
           /\ rng' = r.rng
    /\ UNCHANGED <<servicio, series, evaluacion>>
    /\ UNCHANGED <<pc, varsEval, varsCfg, varsTxt>>
    /\ UNCHANGED varsMas

----------------------------------------------------------------------------
(* The response cache: src/api/middleware/cache.py:17-80                   *)
(*                                                                         *)
(* LRUCache takes no lock. A method is modelled statement by statement:    *)
(* a thread can be suspended between two statements of get or set while    *)
(* another thread runs. One operation on the OrderedDict is atomic.        *)

\* threads that call into the cache
Hilos == {1, 2}

\* cache keys (the digests of _generate_key) and cached values
Claves == {"a", "b", "c"}
Valores == {1, 2}

\* max_size and ttl given to the constructor (cache.py:20)
CacheMaxSize == 2
CacheTtl == 1

\* calls into the cache, and seconds on the clock, that are explored
MaxLlamadasCache == 4
MaxTiempo == 2

\* cache.py:20-30: the instance after __init__
CacheNueva(enabled) ==
    [enabled |-> enabled, cache |-> <<>>,
     stats |-> [hits |-> 0, misses |-> 0, evictions |-> 0]]

\* a thread that is not inside a method of the cache
HiloLibre ==
    [paso |-> "libre", key |-> "", value |-> 0, leido |-> None,
     salida |-> [estado |-> "pendiente"]]

\* `key in od`
Contiene(od, key) == \E i \in 1..Len(od) : od[i].key = key

\* od[key]
Entrada(od, key) == od[CHOOSE i \in 1..Len(od) : od[i].key = key]

\* del od[key]
Quitar(od, key) == SelectSeq(od, LAMBDA e : e.key # key)

\* OrderedDict.move_to_end(key): the entry becomes the last one
move_to_end(od, key) == Append(Quitar(od, key), Entrada(od, key))

\* od[key] = item: an existing key keeps its place, a new one goes last
Asignar(od, key, value, timestamp) ==
    LET item == [key |-> key, value |-> value, timestamp |-> timestamp]
    IN  IF Contiene(od, key)
        THEN [i \in 1..Len(od) |-> IF od[i].key = key THEN item ELSE od[i]]
        ELSE Append(od, item)

\* OrderedDict.popitem(last=False): the first entry is removed
popitem(od) == Tail(od)

Retorno(valor) == [estado |-> "retorno", valor |-> valor]
ErrorCache(tipo) == [estado |-> "error", tipo |-> tipo]

\* a thread leaves the method with the given outcome
Sale(t, salida) ==
    hilos' = [hilos EXCEPT ![t] = [HiloLibre EXCEPT !.salida = salida]]

\* a thread goes on to the statement `paso`
Sigue(t, paso) == hilos' = [hilos EXCEPT ![t].paso = paso]

\* a call begins: it overlaps another one when some thread is inside a method
Empieza(t) ==
    /\ hilos[t].paso = "libre"
    /\ usos.llamadas < MaxLlamadasCache

Solapa(t) == \E o \in Hilos \ {t} : hilos[o].paso # "libre"

AnotaLlamada(t) ==
    [usos EXCEPT !.llamadas = @ + 1,
                 !.secuencial = @ /\ ~Solapa(t)]

\* the key has just been used: it is the most recently used one
Usada(orden, key) == Append(SelectSeq(orden, LAMBDA k : k # key), key)

fueraDeCache == <<pc, varsEval, varsCfg, varsPred, varsTxt, evaluacion, llamadas,
                  recomendacion_operativa, ahora, rate_limit, despachos>>

\* cache.py:43-49: get, up to the membership test
Get_43(t, key) ==
    /\ Empieza(t)
    /\ usos' = AnotaLlamada(t)
    /\ IF ~cache.enabled
       THEN /\ Sale(t, Retorno(None))
            /\ UNCHANGED cache
       ELSE IF ~Contiene(cache.cache, key)
       THEN /\ cache' = [cache EXCEPT !.stats.misses = @ + 1]
            /\ Sale(t, Retorno(None))
       ELSE /\ hilos' = [hilos EXCEPT ![t] =
                            [HiloLibre EXCEPT !.paso = "get_51", !.key = key]]
            /\ UNCHANGED cache
    /\ UNCHANGED <<fueraDeCache, tiempo>>

\* cache.py:51-52: the entry is read and its age compared with ttl
Get_51(t) ==
    /\ hilos[t].paso = "get_51"
    /\ IF ~Contiene(cache.cache, hilos[t].key)
       THEN Sale(t, ErrorCache("KeyError"))
       ELSE \E e \in {Entrada(cache.cache, hilos[t].key)} :
                hilos' = [hilos EXCEPT
                    ![t].leido = Some(e.value),
                    ![t].paso = IF tiempo - e.timestamp > CacheTtl
                                THEN "get_53" ELSE "get_57"]
    /\ UNCHANGED <<fueraDeCache, tiempo, cache, usos>>

\* cache.py:53-55: the expired entry is deleted
Get_53(t) ==
    /\ hilos[t].paso = "get_53"
    /\ IF ~Contiene(cache.cache, hilos[t].key)
       THEN /\ Sale(t, ErrorCache("KeyError"))
            /\ UNCHANGED cache
       ELSE /\ cache' = [cache EXCEPT
                            !.cache = Quitar(@, hilos[t].key),
                            !.stats.misses = @ + 1]
            /\ Sale(t, Retorno(None))
    /\ UNCHANGED <<fueraDeCache, tiempo, usos>>

\* cache.py:57-60: the entry becomes the most recent one and is returned
Get_57(t) ==
    /\ hilos[t].paso = "get_57"
    /\ IF ~Contiene(cache.cache, hilos[t].key)
       THEN /\ Sale(t, ErrorCache("KeyError"))
            /\ UNCHANGED <<cache, usos>>
       ELSE /\ cache' = [cache EXCEPT
                            !.cache = move_to_end(@, hilos[t].key),
                            !.stats.hits = @ + 1]
            /\ usos' = [usos EXCEPT !.orden = Usada(@, hilos[t].key)]
            /\ Sale(t, Retorno(hilos[t].leido))
    /\ UNCHANGED <<fueraDeCache, tiempo>>

\* cache.py:64-67: set, up to the membership test
Set_64(t, key, value) ==
    /\ Empieza(t)
    /\ usos' = AnotaLlamada(t)
    /\ IF ~cache.enabled
       THEN Sale(t, Retorno(None))
       ELSE hilos' = [hilos EXCEPT ![t] =
                [HiloLibre EXCEPT
                    !.paso = IF Contiene(cache.cache, key)
                             THEN "set_68" ELSE "set_71",
                    !.key = key, !.value = value]]
    /\ UNCHANGED <<fueraDeCache, tiempo, cache>>

\* cache.py:68: the existing entry becomes the most recent one
Set_68(t) ==
    /\ hilos[t].paso = "set_68"
    /\ IF ~Contiene(cache.cache, hilos[t].key)
       THEN /\ Sale(t, ErrorCache("KeyError"))
            /\ UNCHANGED cache
       ELSE /\ cache' = [cache EXCEPT !.cache = move_to_end(@, hilos[t].key)]
            /\ Sigue(t, "set_71")
    /\ UNCHANGED <<fueraDeCache, tiempo, usos>>

\* cache.py:71: the entry is stored with the time of the clock
Set_71(t) ==
    /\ hilos[t].paso = "set_71"
    /\ cache' = [cache EXCEPT
                    !.cache = Asignar(@, hilos[t].key, hilos[t].value, tiempo)]
    /\ usos' = [usos EXCEPT !.orden = Usada(@, hilos[t].key)]
    /\ Sigue(t, "set_74")
    /\ UNCHANGED <<fueraDeCache, tiempo>>

\* cache.py:74: the size is compared with max_size
Set_74(t) ==
    /\ hilos[t].paso = "set_74"
    /\ IF Len(cache.cache) > CacheMaxSize
       THEN Sigue(t, "set_75")
       ELSE Sale(t, Retorno(None))
    /\ UNCHANGED <<fueraDeCache, tiempo, cache, usos>>

\* cache.py:75-76: the first entry is evicted
Set_75(t) ==
    /\ hilos[t].paso = "set_75"
    /\ IF cache.cache = <<>>
       THEN /\ Sale(t, ErrorCache("KeyError"))
            /\ UNCHANGED cache
       ELSE /\ cache' = [cache EXCEPT !.cache = popitem(@),
                                      !.stats.evictions = @ + 1]
            /\ Sale(t, Retorno(None))
    /\ UNCHANGED <<fueraDeCache, tiempo, usos>>

\* cache.py:78-80: clear
Clear(t) ==
    /\ Empieza(t)
    /\ usos' = AnotaLlamada(t)
    /\ cache' = [cache EXCEPT !.cache = <<>>]
    /\ Sale(t, Retorno(None))
    /\ UNCHANGED <<fueraDeCache, tiempo>>

\* a second passes on the clock behind time.time()
PasarSegundo ==
    /\ tiempo < MaxTiempo
    /\ tiempo' = tiempo + 1
    /\ UNCHANGED <<fueraDeCache, cache, hilos, usos>>

----------------------------------------------------------------------------
(* The rate limiter: src/api/middleware/rate_limit.py:16-58                *)
(*                                                                         *)
(* dispatch is a coroutine: lines 28-51 run without suspension, and the    *)
(* calls of other requests run while it awaits call_next at line 52.       *)

\* client addresses (request.client.host)
IPs == {"10.0.0.1", "10.0.0.2"}

\* requests that reach the middleware, numbered in order of arrival
MaxPeticiones == 4
Peticiones == 1..MaxPeticiones

\* settings.rate_limit_requests and settings.rate_limit_window
MaxRequests == 2
Window == 1

\* rate_limit.py:19-24: the instance after __init__
RateLimitNuevo(enabled) ==
    [enabled |-> enabled, requests |-> [ip \in IPs |-> <<>>]]

\* a request that has not arrived
SinDespacho == [paso |-> "libre"]

\* rate_limit.py:36: the entry is still inside the window
EnVentana(current_time, ts) == current_time - ts < Window

\* rate_limit.py:34-37: the entries of the client that are kept
Vigentes(lista, current_time) ==
    SelectSeq(lista, LAMBDA e : EnVentana(current_time, e.ts))

\* rate_limit.py:39: sum(count for _, count in ...)
RECURSIVE SumaCuentas(_)
SumaCuentas(lista) ==
    IF lista = <<>> THEN 0 ELSE Head(lista).count + SumaCuentas(Tail(lista))

\* variant: one request more than the limit is let through
ExcedidoDeMas(request_count) == request_count > MaxRequests

\* rate_limit.py:41: the limit is reached
Excedido(request_count) == request_count >= MaxRequests

\* rate_limit.py:46-49
HTTPException429 ==
    [status_code |-> 429, detail |-> "Rate limit excedido"]

fueraDeLimite == <<pc, varsEval, varsCfg, varsPred, varsTxt, evaluacion,
                   llamadas, recomendacion_operativa, ahora, cache, hilos,
                   usos>>

\* rate_limit.py:28-51: dispatch up to the await of call_next
Dispatch_28(p, client_ip) ==
    /\ despachos[p].paso = "libre"
    /\ \A q \in Peticiones : q < p => despachos[q].paso # "libre"
    /\ IF ~rate_limit.enabled
       THEN /\ despachos' = [despachos EXCEPT ![p] =
                    [paso |-> "call_next", limitada |-> FALSE,
                     client_ip |-> client_ip, current_time |-> tiempo,
                     request_count |-> 0]]
            /\ UNCHANGED rate_limit
       ELSE \E lista \in {Vigentes(rate_limit.requests[client_ip], tiempo)} :
            \E request_count \in {SumaCuentas(lista)} :
                IF Excedido(request_count)
                THEN /\ rate_limit' =
                            [rate_limit EXCEPT !.requests[client_ip] = lista]
                     /\ despachos' = [despachos EXCEPT ![p] =
                            [paso |-> "rechazada", limitada |-> TRUE,
                             client_ip |-> client_ip,
                             current_time |-> tiempo,
                             request_count |-> request_count,
                             error |-> HTTPException429]]
                ELSE /\ rate_limit' =
                            [rate_limit EXCEPT !.requests[client_ip] =
                                Append(lista, [ts |-> tiempo, count |-> 1])]
                     /\ despachos' = [despachos EXCEPT ![p] =
                            [paso |-> "call_next", limitada |-> TRUE,
                             client_ip |-> client_ip,
                             current_time |-> tiempo,
                             request_count |-> request_count]]
    /\ UNCHANGED <<fueraDeLimite, tiempo>>

\* rate_limit.py:52-58 (and 29): call_next returns a response, which gets
\* the three headers
Dispatch_52(p) ==
    /\ despachos[p].paso = "call_next"
    /\ despachos' = [despachos EXCEPT ![p] =
            [paso |-> "respondida", limitada |-> @.limitada,
             client_ip |-> @.client_ip, current_time |-> @.current_time,
             request_count |-> @.request_count,
             headers |->
                IF @.limitada
                THEN Some([limit |-> MaxRequests,
                           remaining |-> MaxRequests - @.request_count - 1,
                           reset |-> @.current_time + Window])
                ELSE None]]
    /\ UNCHANGED <<fueraDeLimite, tiempo, rate_limit>>

\* nothing has called the cache or the rate limiter yet
MiddlewareEnReposo ==
    /\ cache = CacheNueva(TRUE)
    /\ hilos = [t \in Hilos |-> HiloLibre]
    /\ tiempo = 0
    /\ usos = [orden |-> <<>>, secuencial |-> TRUE, llamadas |-> 0]
    /\ rate_limit = RateLimitNuevo(TRUE)
    /\ despachos = [p \in Peticiones |-> SinDespacho]

----------------------------------------------------------------------------
(* Forecast requests of two clients: src/api/main.py:312-366               *)
(*                                                                         *)
(* Every endpoint is a coroutine that calls predecir_embalse without       *)
(* awaiting, so the event loop runs one call at a time and to its end;     *)
(* requests that are in flight together are served in either order.        *)

Clientes == {1, 2}

SinPedido ==
    [pc |-> "reposo", codigo_saih |-> "", fecha |-> 0, horizonte |-> 0,
     semilla |-> 0, salida |-> [estado |-> "pendiente"]]

\* No request is in flight, and no recommendation has been stored
EnReposo ==
    /\ llamadas = [c \in Clientes |-> SinPedido]
    /\ recomendacion_operativa = {}
    /\ ahora = 0
    /\ MiddlewareEnReposo

\* main.py:312-316: a request arrives; semilla is the state of the generator
\* at its arrival
RecibirPrediccion(c, codigo_saih, fecha, horizonte) ==
    /\ llamadas[c].pc = "reposo"
    /\ llamadas' = [llamadas EXCEPT ![c] =
                        [pc |-> "pendiente", codigo_saih |-> codigo_saih,
                         fecha |-> fecha, horizonte |-> horizonte,
                         semilla |-> rng, salida |-> [estado |-> "pendiente"]]]
    /\ UNCHANGED <<varsPred, evaluacion>>
    /\ UNCHANGED <<pc, varsEval, varsCfg, varsTxt>>
    /\ UNCHANGED <<recomendacion_operativa, ahora, varsMid>>

\* main.py:326-330: the event loop runs the call of a request in flight
GenerarPrediccion(c) ==
    /\ llamadas[c].pc = "pendiente"
    /\ \E r \in {predecir_embalse(servicio, series, rng, llamadas[c].codigo_saih,
                                  llamadas[c].fecha, llamadas[c].horizonte)} :
           /\ llamadas' = [llamadas EXCEPT ![c].pc = "hecho", ![c].salida = r]
           /\ rng' = r.rng
    /\ UNCHANGED <<servicio, series, resultado, evaluacion>>
    /\ UNCHANGED <<pc, varsEval, varsCfg, varsTxt>>
    /\ UNCHANGED <<recomendacion_operativa, ahora, varsMid>>

\* main.py:332-358: the response leaves
ResponderPrediccion(c) ==
    /\ llamadas[c].pc = "hecho"
    /\ \A o \in Clientes : llamadas[o].pc # "pendiente"
    /\ llamadas' = [llamadas EXCEPT ![c] = SinPedido]
    /\ UNCHANGED <<varsPred, evaluacion>>
    /\ UNCHANGED <<pc, varsEval, varsCfg, varsTxt>>
    /\ UNCHANGED <<recomendacion_operativa, ahora, varsMid>>

----------------------------------------------------------------------------
(* Risk analysis over the operational track: src/api/services/risk.py      *)

\* settings.default_risk_min_threshold, settings.default_risk_max_threshold
DefaultRiskMinThreshold == 300
DefaultRiskMaxThreshold == 350

\* Thresholds a RiesgoRequest may carry, in level units: an optional float
\* each, with no constraint between the two
UmbralesRiesgo == {None, Some(50), Some(90)}

\* loader.py:381-402
get_fecha_maxima(ser, codigo_saih) ==
    IF ser[codigo_saih] = None \/ Val(ser[codigo_saih]) = <<>>
    THEN [estado |-> "error", clase |-> "ValueError",
          mensaje |-> "No hay datos para el embalse"]
    ELSE LET df == Val(ser[codigo_saih])
         IN  [estado |-> "ok",
              fecha |-> NpMax([k \in 1..Len(df) |-> df[k].fecha])]

\* np.sum(niveles_pred < umbral_minimo); a level is held in 1/600
ContarBajo(niveles_pred, umbral_minimo) ==
    Cardinality({k \in 1..Len(niveles_pred) : niveles_pred[k] < 600 * umbral_minimo})

\* np.sum(niveles_pred > umbral_maximo)
ContarAlto(niveles_pred, umbral_maximo) ==
    Cardinality({k \in 1..Len(niveles_pred) : niveles_pred[k] > 600 * umbral_maximo})

\* risk.py:86-158: the category; n_bajo, n_alto, n_medio out of n_total
RiskService_clasificar_riesgo(n_bajo, n_alto, n_medio, n_total) ==
    IF 100 * n_medio >= 80 * n_total THEN "BAJO"
    ELSE IF 100 * n_bajo > 30 * n_total THEN "ALTO"
    ELSE IF 100 * n_alto > 30 * n_total THEN "ALTO"
    ELSE IF 100 * n_bajo > 15 * n_total \/ 100 * n_alto > 15 * n_total THEN "MEDIO"
    ELSE "BAJO"

\* risk.py:43-83: the analysis of a forecast that predecir_embalse returned
AnalisisDe(df_pred, fecha, umbral_minimo, umbral_maximo) ==
    LET niveles_pred == [k \in 1..Len(df_pred.filas) |-> df_pred.filas[k].pred]
        n_total == Len(niveles_pred)
        n_bajo == ContarBajo(niveles_pred, umbral_minimo)
        n_alto == ContarAlto(niveles_pred, umbral_maximo)
        n_medio == n_total - n_bajo - n_alto
    IN  [estado |-> "ok",
         fecha_analisis |-> fecha,
         niveles_pred |-> niveles_pred,
         nivel_minimo_predicho |-> NpMin(niveles_pred),
         nivel_maximo_predicho |-> NpMax(niveles_pred),
         prob_riesgo_bajo |-> [num |-> n_bajo, den |-> n_total],
         prob_riesgo_alto |-> [num |-> n_alto, den |-> n_total],
         prob_riesgo_medio |-> [num |-> n_medio, den |-> n_total],
         categoria_riesgo |->
            RiskService_clasificar_riesgo(n_bajo, n_alto, n_medio, n_total),
         umbral_minimo |-> umbral_minimo,
         umbral_maximo |-> umbral_maximo,
         rng |-> df_pred.rng]

\* risk.py:16-83
analizar_riesgo(svc, ser, estado, codigo_saih, fecha_inicio, horizonte_dias, umbral_minimo_, umbral_maximo_) ==
    LET umbral_minimo == IF umbral_minimo_ = None THEN DefaultRiskMinThreshold
                         ELSE Val(umbral_minimo_)
        umbral_maximo == IF umbral_maximo_ = None THEN DefaultRiskMaxThreshold
                         ELSE Val(umbral_maximo_)
        fecha_max == get_fecha_maxima(ser, codigo_saih)
    IN  IF fecha_inicio = None /\ fecha_max.estado # "ok"
        THEN ErrorPrediccion(fecha_max.clase, fecha_max.mensaje, estado)
        ELSE
        LET fecha == IF fecha_inicio = None THEN fecha_max.fecha - horizonte_dias
                     ELSE Val(fecha_inicio)
        IN  CHOOSE r \in
                {IF df_pred.estado # "ok" THEN df_pred
                 ELSE AnalisisDe(df_pred, fecha, umbral_minimo, umbral_maximo) :
                    df_pred \in {predecir_embalse(svc, ser, estado, codigo_saih,
                                                  fecha, horizonte_dias)}} : TRUE

\* Anchors a RiesgoRequest may carry: none, or a date
FechasRiesgo == {None} \cup {Some(f) : f \in {CkptLookback + 1, MaxFecha}}

\* A call of analizar_riesgo by a caller that holds no earlier outcome
AnalizarRiesgo(codigo_saih, fecha_inicio, horizonte_dias, umbral_minimo, umbral_maximo) ==
    /\ resultado.op = "ninguna"
    /\ \E r \in {analizar_riesgo(servicio, series, rng, codigo_saih, fecha_inicio,
                                 horizonte_dias, umbral_minimo, umbral_maximo)} :
           /\ resultado' = [op |-> "analizar_riesgo", codigo_saih |-> codigo_saih,
                            fecha |-> IF r.estado = "ok" THEN r.fecha_analisis ELSE 0,
                            horizonte |-> horizonte_dias,
                            mode |-> "", semilla |-> rng,
                            servicio |-> servicio, salida |-> r]
           /\ rng' = r.rng
    /\ UNCHANGED <<servicio, series, evaluacion>>
    /\ UNCHANGED <<pc, varsEval, varsCfg, varsTxt>>
    /\ UNCHANGED varsMas

----------------------------------------------------------------------------
(* Threshold configuration: store, POST /recomendaciones/config, resolver *)

\* Rows of estacion_saih, and the codes a request may name
Estaciones == {"E001"}
CodigosPedidos == {"E001", "E999"}

\* recomendacion.py:255-272: the row of the station in estacion_saih
_obtener_info_embalse(codigo_saih) ==
    IF codigo_saih \in Estaciones
    THEN Some([codigo_saih |-> codigo_saih, nivel_maximo |-> 50])
    ELSE None

\* Keys of recomendacion_config: codigo_saih NULL (global) or a station
ClavesConfig == {None} \cup {Some(e) : e \in Estaciones}
TablaVacia == [k \in ClavesConfig |-> None]

\* Thresholds a client posts (any order: each field is validated alone)
RatiosPost == {30, 80, 100}

IdDe(codigo) == IF codigo = None THEN 1 ELSE 2

\* SQL function obtener_config_embalse: the row of the station when there
\* is one, else the global row, else no row
ObtenerConfigEmbalseSQL(tabla, codigo_saih) ==
    IF Some(codigo_saih) \in DOMAIN tabla /\ tabla[Some(codigo_saih)] # None
    THEN tabla[Some(codigo_saih)]
    ELSE tabla[None]

\* database.py:55-83: get_cursor raises when there is no pool, and lets any
\* error of the query through after the rollback
GetCursor(p, falla) ==
    IF p = None THEN "RuntimeError"
    ELSE IF falla THEN "OperationalError"
    ELSE "ok"

\* recomendacion.py:46-79
obtener_configuracion_embalse(p, tabla, codigo_saih, falla) ==
    LET cursor == GetCursor(p, falla)
        result == ObtenerConfigEmbalseSQL(tabla, codigo_saih)
    IN  IF cursor # "ok"
        THEN [op |-> "obtener_configuracion_embalse", codigo_saih |-> codigo_saih,
              estado |-> cursor, config |-> None]
        ELSE [op |-> "obtener_configuracion_embalse", codigo_saih |-> codigo_saih,
              estado |-> "ok",
              config |-> IF result # None THEN result ELSE Some(ConfigDefecto)]

\* database.py:23-46, called from DataLoader.initialize at startup
InitializePool ==
    /\ pc = "reposo"
    /\ pool = None
    /\ pool' = Some("SimpleConnectionPool")
    /\ UNCHANGED <<pc, recomendacion_config, config_respuesta>>
    /\ UNCHANGED <<varsEval, varsPred, varsTxt, evaluacion>>
    /\ UNCHANGED varsMas

\* database.py:48-53, called from DataLoader.close at shutdown
ClosePool ==
    /\ pc = "reposo"
    /\ pool # None
    /\ pool' = None
    /\ UNCHANGED <<pc, recomendacion_config, config_respuesta>>
    /\ UNCHANGED <<varsEval, varsPred, varsTxt, evaluacion>>
    /\ UNCHANGED varsMas

\* routers/recomendaciones.py:496-561
CrearActualizarConfiguracion(codigo, c) ==
    /\ pc = "reposo"
    /\ IF pool = None
       THEN /\ config_respuesta' =
                [op |-> "crear_actualizar_configuracion", codigo_saih |-> codigo,
                 estado |-> "500", config |-> None]
            /\ UNCHANGED recomendacion_config
       ELSE IF codigo # None /\ _obtener_info_embalse(Val(codigo)) = None
       THEN /\ config_respuesta' =
                [op |-> "crear_actualizar_configuracion", codigo_saih |-> codigo,
                 estado |-> "404", config |-> None]
            /\ UNCHANGED recomendacion_config
       ELSE /\ recomendacion_config' =
                [recomendacion_config EXCEPT ![codigo] = Some(ConFila(c, Some(IdDe(codigo))))]
            /\ config_respuesta' =
                [op |-> "crear_actualizar_configuracion", codigo_saih |-> codigo,
                 estado |-> "200", config |-> None]
    /\ UNCHANGED <<pc, pool>>
    /\ UNCHANGED <<varsEval, varsPred, varsTxt, evaluacion>>
    /\ UNCHANGED varsMas

\* A call of RecomendacionService.obtener_configuracion_embalse
ObtenerConfiguracionEmbalse(codigo_saih, falla) ==
    /\ pc = "reposo"
    /\ config_respuesta' =
         obtener_configuracion_embalse(pool, recomendacion_config, codigo_saih, falla)
    /\ UNCHANGED <<pc, pool, recomendacion_config>>
    /\ UNCHANGED <<varsEval, varsPred, varsTxt, evaluacion>>
    /\ UNCHANGED varsMas

\* No evaluation has been made
SinEvaluar == [estado |-> "pendiente"]

\* Horizons an evaluation is asked for (None: the configured one) and its
\* start dates: the first day of the series and the last one, the default
\* date.today() of recomendacion.py:140-141
HorizontesEvaluacion == {None, Some(1)}
FechasEvaluacion == {1, MaxFecha}

\* Rows of recomendacion_operativa: the station, the hour of generation,
\* the parameters of the evaluation and its verdict
FilaRecomendacion(codigo_saih, fecha_generacion, fecha_inicio, horizonte_dias) ==
    [codigo_saih |-> codigo_saih, fecha_generacion |-> fecha_generacion,
     fecha_inicio |-> fecha_inicio, horizonte_dias |-> horizonte_dias,
     nivel_riesgo |-> IF horizonte_dias = 1 THEN BAJO ELSE ALTO]

\* INTERVAL '6 hours' of recomendacion.py:243
HorasVigencia == 6

\* recomendacion.py:230-246: the rows the query may return as its one row:
\* those of the station (joined with estacion_saih) generated less than six
\* hours ago and not older than any other such row.  fecha_inicio and
\* horizonte are parameters of the method that the query does not use
Recientes(tabla, hora, codigo_saih, fecha_inicio, horizonte) ==
    LET filas == {r \in tabla :
                    /\ r.codigo_saih = codigo_saih
                    /\ r.codigo_saih \in Estaciones
                    /\ r.fecha_generacion > hora - HorasVigencia}
    IN  {r \in filas : \A o \in filas : r.fecha_generacion >= o.fecha_generacion}

\* recomendacion.py:139-172 once the configuration and the station row have
\* been read: the forecast frame is converted row by row (154-168); the
\* conversion reads the column 'pred_aemet_ruido', which the frame of
\* prediction.py:237-244 (fecha, pred_hist, pred, nivel_real) does not have
ConvertirPrediccion(p) ==
    IF p.estado # "ok" THEN [estado |-> p.clase]
    ELSE IF p.filas # <<>> THEN [estado |-> "KeyError", df_prediccion |-> p.filas]
    ELSE [estado |-> "ValueError"]

\* recomendacion.py:85-219.  Without forzar_regeneracion a recent row of the
\* station is returned as it is (113-120).  Otherwise the configuration, the
\* station row and the forecast are read; every path through lines 122-172
\* ends in an exception, which leaves pc at "error"
EvaluarRiesgoEmbalse(codigo_saih, fecha_inicio, horizonte, forzar_regeneracion, falla) ==
    /\ pc = "reposo"
    /\ LET r == obtener_configuracion_embalse(pool, recomendacion_config,
                                              codigo_saih, falla)
           info == _obtener_info_embalse(codigo_saih)
           h == IF horizonte = None THEN Val(r.config).horizonte_dias
                ELSE Val(horizonte)
           recientes == Recientes(recomendacion_operativa, ahora, codigo_saih,
                                  fecha_inicio, horizonte)
       IN  IF ~forzar_regeneracion /\ GetCursor(pool, falla) # "ok"
           THEN /\ evaluacion' = [estado |-> GetCursor(pool, falla)]
                /\ pc' = "error"
                /\ UNCHANGED <<config, nivel_maximo, rng, config_respuesta>>
           ELSE IF ~forzar_regeneracion /\ recientes # {}
           THEN /\ \E fila \in recientes :
                    evaluacion' =
                        [estado |-> "ok", origen |-> "recomendacion_operativa",
                         recomendacion |-> fila, hora |-> ahora,
                         pedido |-> [codigo_saih |-> codigo_saih,
                                     fecha_inicio |-> fecha_inicio,
                                     horizonte |-> horizonte]]
                /\ pc' = "retorno"
                /\ UNCHANGED <<config, nivel_maximo, rng, config_respuesta>>
           ELSE /\ config_respuesta' = r
                /\ pc' = "error"
                /\ IF r.estado # "ok"
                   THEN /\ evaluacion' = [estado |-> r.estado]
                        /\ UNCHANGED <<config, nivel_maximo, rng>>
                   ELSE IF info = None
                   THEN /\ evaluacion' = [estado |-> "ValueError"]
                        /\ config' = Val(r.config)
                        /\ UNCHANGED <<nivel_maximo, rng>>
                   ELSE /\ config' = Val(r.config)
                        /\ nivel_maximo' = Val(info).nivel_maximo
                        /\ \E p \in {predecir_embalse(servicio, series, rng,
                                                     codigo_saih, fecha_inicio, h)} :
                              /\ rng' = p.rng
                              /\ evaluacion' = ConvertirPrediccion(p)
    /\ UNCHANGED <<prediccion, ultimo_nivel, metricas, clasificacion>>
    /\ UNCHANGED <<pool, recomendacion_config, servicio, series, resultado>>
    /\ UNCHANGED varsTxt
    /\ UNCHANGED <<llamadas, recomendacion_operativa, ahora, varsMid>>

\* NOW() moves on by an hour
PasarHora ==
    /\ pc = "reposo"
    /\ ahora < MaxHora
    /\ ahora' = ahora + 1
    /\ UNCHANGED <<pc, varsEval, varsCfg, varsPred, varsTxt, evaluacion>>
    /\ UNCHANGED <<llamadas, recomendacion_operativa, varsMid>>

\* No evaluation is running: the locals of evaluar_riesgo_embalse
SinEvaluacion ==
    /\ prediccion = [predicciones |-> <<>>, mae_historico |-> None]
    /\ ultimo_nivel = None
    /\ config = ConfigDefecto
    /\ nivel_maximo = 0
    /\ metricas = Pendiente
    /\ clasificacion = Pendiente

\* The exception of evaluar_riesgo_embalse, or the stored recommendation it
\* returned, has reached the caller: the locals of the call are gone
Retornar ==
    /\ pc \in {"error", "retorno"}
    /\ pc' = "reposo"
    /\ prediccion' = [predicciones |-> <<>>, mae_historico |-> None]
    /\ ultimo_nivel' = None
    /\ config' = ConfigDefecto
    /\ nivel_maximo' = 0
    /\ metricas' = Pendiente
    /\ clasificacion' = Pendiente
    /\ evaluacion' = SinEvaluar
    /\ UNCHANGED <<varsCfg, varsPred, varsTxt>>
    /\ UNCHANGED varsMas

\* The forecast engine as it stands when the API serves: loaded at startup
\* (main.py:60-62), one record per day for station E001
EnServicio ==
    /\ servicio = ServicioCargado
    /\ series = [c \in CodigosPrediccion |->
                   IF c = "E001" THEN Some(DataFrameDe(1..MaxFecha)) ELSE None]
    /\ rng = 0
    /\ resultado = SinLlamada

\* Nothing has been composed
SinTextos == [estado |-> "pendiente"]

----------------------------------------------------------------------------
(* Recommendation texts: recomendacion.py:472-624                          *)
(*                                                                         *)
(* A text is a sequence of parts: [texto |-> s] is literal text,           *)
(* [campo |-> c] a placeholder {c} of a template, and [valor |-> q,        *)
(* decimales |-> n] a number formatted with n decimals, q being the        *)
(* rounded value in units of 10^-n.  The empty string is the empty         *)
(* sequence.                                                               *)

Texto(cadena) == [texto |-> cadena]
Campo(c) == [campo |-> c]

\* round(a / b) for a >= 0 and b > 0
RedondearCociente(a, b) == (2 * a + b) \div (2 * b)

\* f"{x:.nf}" of the quotient num / den; escala is 10^n
Formato(num, den, escala, n) ==
    [valor |-> RedondearCociente(escala * num, den), decimales |-> n]

\* Rows of plantilla_recomendacion, in the order of their prioridad; the
\* conditions on the percentage are NULL in these rows
Plantilla(nivel, tipo, tendencia, partes) ==
    [nivel_riesgo |-> nivel, tipo_plantilla |-> tipo,
     condicion_tendencia |-> tendencia, activo |-> TRUE, plantilla |-> partes]

\* A store with both kinds for ALTO, one kind for MODERADO, a placeholder
\* no parameter resolves for SEQUIA, and a trend condition for BAJO
TablaPlantillas ==
    <<Plantilla(ALTO, "motivo", None,
                <<Texto("Nivel al "), Campo("porcentaje"), Texto("% en "),
                  Campo("dias"), Texto(" dias")>>),
      Plantilla(ALTO, "accion", None,
                <<Texto("Reducir "), Campo("volumen_reducir"), Texto(" hm3")>>),
      Plantilla(MODERADO, "motivo", None,
                <<Texto("Tendencia "), Campo("tendencia")>>),
      Plantilla(SEQUIA, "motivo", None,
                <<Texto("Caudal "), Campo("caudal")>>),
      Plantilla(SEQUIA, "accion", None, <<Texto("Restringir")>>),
      Plantilla(BAJO, "motivo", Some(SUBIENDO), <<Texto("Subiendo")>>),
      Plantilla(BAJO, "accion", Some(SUBIENDO), <<Texto("Vigilar")>>)>>

\* The stores the composer may find
TablasPlantillas == {<<>>, TablaPlantillas}

\* recomendacion.py:525-556: the matching rows by kind, the last one of a
\* kind winning, or None when there is none or the query fails
_obtener_plantillas(p, tabla, nivel_riesgo, tendencia, falla) ==
    LET results == SelectSeq(tabla, LAMBDA row :
                        /\ row.nivel_riesgo = nivel_riesgo
                        /\ row.activo
                        /\ (row.condicion_tendencia = None
                              \/ row.condicion_tendencia = Some(tendencia)))
        tipos == {results[k].tipo_plantilla : k \in 1..Len(results)}
        ultima(t) == CHOOSE k \in 1..Len(results) :
                        /\ results[k].tipo_plantilla = t
                        /\ \A o \in (k + 1)..Len(results) : results[o].tipo_plantilla # t
    IN  IF GetCursor(p, falla) # "ok" \/ results = <<>>
        THEN None
        ELSE Some([t \in tipos |-> results[ultima(t)].plantilla])

\* _formatear_plantilla that gives up the text of a template it cannot fill
_formatear_plantilla_vacia(plantilla, params) ==
    IF \A k \in 1..Len(plantilla) :
          "campo" \in DOMAIN plantilla[k] => plantilla[k].campo \in DOMAIN params
    THEN [k \in 1..Len(plantilla) |->
            IF "campo" \in DOMAIN plantilla[k]
            THEN params[plantilla[k].campo]
            ELSE plantilla[k]]
    ELSE <<>>

\* recomendacion.py:558-567: str.format, and the template itself when a
\* placeholder has no parameter
_formatear_plantilla(plantilla, params) ==
    IF \A k \in 1..Len(plantilla) :
          "campo" \in DOMAIN plantilla[k] => plantilla[k].campo \in DOMAIN params
    THEN [k \in 1..Len(plantilla) |->
            IF "campo" \in DOMAIN plantilla[k]
            THEN params[plantilla[k].campo]
            ELSE plantilla[k]]
    ELSE plantilla

\* A fallback that has lost the text of its last branch
_generar_textos_basicos_sin_bajo(nivel_riesgo, m, capacidad, horizonte, porcentaje) ==
    IF nivel_riesgo = ALTO
    THEN [motivo |-> <<Texto("El nivel predicho alcanzara "), porcentaje>>,
          accion |-> <<Texto("URGENTE: Planificar desembalses preventivos.")>>]
    ELSE IF nivel_riesgo = MODERADO
    THEN [motivo |-> <<Texto("El nivel predicho se situara en "), porcentaje>>,
          accion |-> <<Texto("Incrementar frecuencia de monitoreo.")>>]
    ELSE IF nivel_riesgo = SEQUIA
    THEN [motivo |-> <<Texto("El nivel predicho descendera a "), porcentaje>>,
          accion |-> <<Texto("CRITICO: Activar protocolos de escasez.")>>]
    ELSE [motivo |-> <<>>, accion |-> <<>>]

\* recomendacion.py:569-624
_generar_textos_basicos(nivel_riesgo, m, capacidad, horizonte, porcentaje) ==
    LET nivel_pred == Formato(m.nivel_medio.num, m.nivel_medio.den, 100, 2)
        nivel_max == Formato(capacidad, 1, 100, 2)
        mae == Formato(IF Truthy(m.mae) THEN Val(m.mae) ELSE 0, 1, 100, 2)
        dias == [valor |-> horizonte, decimales |-> 0]
    IN  IF nivel_riesgo = ALTO
        THEN [motivo |-> <<Texto("El nivel predicho alcanzara "), porcentaje,
                           Texto("% de la capacidad maxima ("), nivel_max,
                           Texto(" hm3) en los proximos "), dias,
                           Texto(" dias, con nivel esperado de "), nivel_pred,
                           Texto(" hm3. MAE historico: "), mae, Texto(" hm3.")>>,
              accion |-> <<Texto("URGENTE: Planificar desembalses preventivos.")>>]
        ELSE IF nivel_riesgo = MODERADO
        THEN [motivo |-> <<Texto("El nivel predicho se situara en "), porcentaje,
                           Texto("% de capacidad ("), nivel_pred,
                           Texto(" hm3) dentro de "), dias,
                           Texto(" dias. Tendencia: "), Texto(m.tendencia),
                           Texto(". Incertidumbre: "), mae, Texto(" hm3.")>>,
              accion |-> <<Texto("Incrementar frecuencia de monitoreo.")>>]
        ELSE IF nivel_riesgo = SEQUIA
        THEN [motivo |-> <<Texto("El nivel predicho descendera a "), porcentaje,
                           Texto("% de capacidad ("), nivel_pred,
                           Texto(" hm3) en "), dias,
                           Texto(" dias. Riesgo de insuficiencia hidrica.")>>,
              accion |-> <<Texto("CRITICO: Activar protocolos de escasez.")>>]
        ELSE [motivo |-> <<Texto("El nivel predicho se mantendra en "), porcentaje,
                           Texto("% de capacidad ("), nivel_pred,
                           Texto(" hm3), dentro del rango optimo operativo.")>>,
              accion |-> <<Texto("Continuar con monitoreo estandar.")>>]

\* recomendacion.py:472-523
_generar_textos_recomendacion(c, m, capacidad, horizonte, p, tabla, falla) ==
    IF capacidad = 0
    THEN [estado |-> "ZeroDivisionError"]
    ELSE
    LET porcentaje == Formato(100 * m.nivel_medio.num, m.nivel_medio.den * capacidad, 10, 1)
        plantillas == _obtener_plantillas(p, tabla, c.nivel_riesgo, m.tendencia, falla)
        exceso == 100 * m.nivel_max_esperado - c.umbral_moderado
        volumen_reducir == IF exceso > 0 THEN exceso ELSE 0
        basicos == _generar_textos_basicos(c.nivel_riesgo, m, capacidad, horizonte,
                                           porcentaje)
    IN  IF plantillas # None
           /\ {"motivo", "accion"} \subseteq DOMAIN Val(plantillas)
        THEN [estado |-> "ok", origen |-> "plantillas",
              motivo |-> _formatear_plantilla(Val(plantillas)["motivo"],
                  [porcentaje |-> porcentaje,
                   nivel_pred |-> m.nivel_medio,
                   nivel_max |-> Fraccion(capacidad, 1),
                   nivel_actual |-> IF m.nivel_actual # 0
                                    THEN Fraccion(m.nivel_actual, 1)
                                    ELSE m.nivel_medio,
                   dias |-> Fraccion(horizonte, 1),
                   mae |-> Fraccion(IF Truthy(m.mae) THEN Val(m.mae) ELSE 0, 1),
                   tendencia |-> Texto(m.tendencia),
                   umbral_min |-> Fraccion(c.umbral_minimo, 100)]),
              accion |-> _formatear_plantilla(Val(plantillas)["accion"],
                  [volumen_reducir |-> Fraccion(volumen_reducir, 100),
                   volumen_reducir_max |-> Fraccion(12 * volumen_reducir, 1000),
                   dias |-> Fraccion(horizonte, 1)])]
        ELSE [estado |-> "ok", origen |-> "basicos",
              motivo |-> basicos.motivo, accion |-> basicos.accion]

\* recomendacion.py:181-186
GenerarTextos(falla) ==
    /\ pc = "clasificado"
    /\ \E r \in {_generar_textos_recomendacion(clasificacion, metricas, nivel_maximo,
                    config.horizonte_dias, pool, plantilla_recomendacion, falla)} :
          textos' = IF r.estado # "ok" THEN r
                    ELSE [estado |-> "ok", origen |-> r.origen, motivo |-> r.motivo,
                          accion |-> r.accion, consulta |-> GetCursor(pool, falla)]
    /\ pc' = IF textos'.estado = "ok" THEN "textos" ELSE "error"
    /\ UNCHANGED <<varsEval, varsCfg, varsPred, evaluacion, plantilla_recomendacion>>
    /\ UNCHANGED varsMas

\* What the composer is tried on: the inputs of the classifier that carry a
\* configuration with drought < moderate < high <= 1.0
EntradasTextos == {e \in Entradas : ConfigValida(e.config)}

Init ==
    /\ pc = "inicio"
    /\ \E e \in Entradas :
        /\ prediccion = Prediccion(e)
        /\ ultimo_nivel = e.fuente.ultimo
        /\ config = e.config
        /\ nivel_maximo = e.nivel_maximo
    /\ metricas = Pendiente
    /\ clasificacion = Pendiente
    /\ pool = None
    /\ recomendacion_config = TablaVacia
    /\ config_respuesta = SinRespuesta
    /\ EnServicio
    /\ evaluacion = SinEvaluar
    /\ plantilla_recomendacion = <<>>
    /\ textos = SinTextos
    /\ EnReposo

Next ==
    \/ CalcularMetricas
    \/ ClasificarRiesgo

Spec == Init /\ [][Next]_vars

InitConfig ==
    /\ pc = "reposo"
    /\ SinEvaluacion
    /\ pool = None
    /\ recomendacion_config = TablaVacia
    /\ config_respuesta = SinRespuesta
    /\ EnServicio
    /\ evaluacion = SinEvaluar
    /\ plantilla_recomendacion = <<>>
    /\ textos = SinTextos
    /\ EnReposo

NextConfig ==
    \/ InitializePool
    \/ ClosePool
    \/ \E codigo \in {None} \cup {Some(e) : e \in CodigosPedidos},
          c \in CamposConfigCreate(RatiosPost) :
            CrearActualizarConfiguracion(codigo, c)
    \/ \E codigo_saih \in CodigosPedidos, falla \in BOOLEAN :
            ObtenerConfiguracionEmbalse(codigo_saih, falla)
    \/ \E codigo_saih \in CodigosPedidos, fecha_inicio \in FechasEvaluacion,
          horizonte \in HorizontesEvaluacion, forzar_regeneracion \in BOOLEAN,
          falla \in BOOLEAN :
            EvaluarRiesgoEmbalse(codigo_saih, fecha_inicio, horizonte,
                                 forzar_regeneracion, falla)
    \/ Retornar

SpecConfig == InitConfig /\ [][NextConfig]_vars

InitPrediccion ==
    /\ pc = "reposo"
    /\ SinEvaluacion
    /\ pool = None
    /\ recomendacion_config = TablaVacia
    /\ config_respuesta = SinRespuesta
    /\ servicio = ServicioNuevo
    /\ series \in Almacenes
    /\ rng \in 0..(Periodo - 1)
    /\ resultado = SinLlamada
    /\ evaluacion = SinEvaluar
    /\ plantilla_recomendacion = <<>>
    /\ textos = SinTextos
    /\ EnReposo

NextPrediccion ==
    \/ \E falla \in FallosCarga : LoadModel(falla)
    \/ \E s \in 0..(Periodo - 1) : Sembrar(s)
    \/ \E mode \in {"hist", "aemet_ruido"}, fecha \in 1..MaxFecha,
          horizonte \in Horizontes :
            BuildWindow(mode, fecha, horizonte)
    \/ \E codigo_saih \in CodigosPrediccion, fecha \in 1..MaxFecha,
          horizonte \in Horizontes :
            PredecirEmbalse(codigo_saih, fecha, horizonte)
    \/ \E codigo_saih \in CodigosPrediccion, fecha_inicio \in FechasRiesgo,
          horizonte_dias \in 1..CkptHorizon,
          umbral_minimo \in UmbralesRiesgo, umbral_maximo \in UmbralesRiesgo :
            AnalizarRiesgo(codigo_saih, fecha_inicio, horizonte_dias,
                           umbral_minimo, umbral_maximo)
    \/ Descartar

SpecPrediccion == InitPrediccion /\ [][NextPrediccion]_vars

InitTextos ==
    /\ pc = "inicio"
    /\ \E e \in EntradasTextos :
        /\ prediccion = Prediccion(e)
        /\ ultimo_nivel = e.fuente.ultimo
        /\ config = e.config
        /\ nivel_maximo = e.nivel_maximo
    /\ metricas = Pendiente
    /\ clasificacion = Pendiente
    /\ pool = Some("SimpleConnectionPool")
    /\ recomendacion_config = TablaVacia
    /\ config_respuesta = SinRespuesta
    /\ EnServicio
    /\ evaluacion = SinEvaluar
    /\ plantilla_recomendacion \in TablasPlantillas
    /\ textos = SinTextos
    /\ EnReposo

NextTextos ==
    \/ CalcularMetricas
    \/ ClasificarRiesgo
    \/ \E falla \in BOOLEAN : GenerarTextos(falla)

SpecTextos == InitTextos /\ [][NextTextos]_vars

InitPeticiones ==
    /\ pc = "reposo"
    /\ prediccion = [predicciones |-> <<>>, mae_historico |-> None]
    /\ ultimo_nivel = None
    /\ config = ConfigDefecto
    /\ nivel_maximo = 0
    /\ metricas = Pendiente
    /\ clasificacion = Pendiente
    /\ pool = None
    /\ recomendacion_config = TablaVacia
    /\ config_respuesta = SinRespuesta
    /\ servicio = ServicioCargado
    /\ series \in Almacenes
    /\ rng \in 0..(Periodo - 1)
    /\ resultado = SinLlamada
    /\ evaluacion = SinEvaluar
    /\ plantilla_recomendacion = <<>>
    /\ textos = SinTextos
    /\ EnReposo

NextPeticiones ==
    \/ \E c \in Clientes, codigo_saih \in {"E001", "E999"},
          fecha \in (CkptLookback + 1)..MaxFecha, horizonte \in 1..CkptHorizon :
            RecibirPrediccion(c, codigo_saih, fecha, horizonte)
    \/ \E c \in Clientes : GenerarPrediccion(c)
    \/ \E c \in Clientes : ResponderPrediccion(c)

SpecPeticiones == InitPeticiones /\ [][NextPeticiones]_vars

\* Recommendations found in the store: at most two rows, generated at hour
\* 0 or at hour HoraGenerada, for either anchor and horizon
HoraGenerada == 4
FilasGuardadas ==
    {FilaRecomendacion(c, g, f, h) :
        c \in CodigosPedidos, g \in {0, HoraGenerada},
        f \in FechasEvaluacion, h \in {1, HorizonteDefecto}}
TablasRecomendacion == {T \in SUBSET FilasGuardadas : Cardinality(T) <= 2}

InitCache ==
    /\ pc = "reposo"
    /\ SinEvaluacion
    /\ pool = Some("SimpleConnectionPool")
    /\ recomendacion_config = TablaVacia
    /\ config_respuesta = SinRespuesta
    /\ EnServicio
    /\ evaluacion = SinEvaluar
    /\ plantilla_recomendacion = <<>>
    /\ textos = SinTextos
    /\ llamadas = [c \in Clientes |-> SinPedido]
    /\ recomendacion_operativa \in TablasRecomendacion
    /\ ahora = HoraGenerada
    /\ MiddlewareEnReposo

NextCache ==
    \/ \E codigo_saih \in CodigosPedidos, fecha_inicio \in FechasEvaluacion,
          horizonte \in HorizontesEvaluacion, forzar_regeneracion \in BOOLEAN,
          falla \in BOOLEAN :
            EvaluarRiesgoEmbalse(codigo_saih, fecha_inicio, horizonte,
                                 forzar_regeneracion, falla)
    \/ Retornar
    \/ PasarHora

SpecCache == InitCache /\ [][NextCache]_vars

\* The threads of one process call into a cache that starts empty
InitLRU ==
    /\ pc = "reposo"
    /\ SinEvaluacion
    /\ pool = Some("SimpleConnectionPool")
    /\ recomendacion_config = TablaVacia
    /\ config_respuesta = SinRespuesta
    /\ EnServicio
    /\ evaluacion = SinEvaluar
    /\ plantilla_recomendacion = <<>>
    /\ textos = SinTextos
    /\ llamadas = [c \in Clientes |-> SinPedido]
    /\ recomendacion_operativa = {}
    /\ ahora = 0
    /\ cache \in {CacheNueva(enabled) : enabled \in BOOLEAN}
    /\ hilos = [t \in Hilos |-> HiloLibre]
    /\ tiempo = 0
    /\ usos = [orden |-> <<>>, secuencial |-> TRUE, llamadas |-> 0]
    /\ rate_limit = RateLimitNuevo(TRUE)
    /\ despachos = [p \in Peticiones |-> SinDespacho]

NextLRU ==
    \/ \E t \in Hilos, key \in Claves : Get_43(t, key)
    \/ \E t \in Hilos : Get_51(t)
    \/ \E t \in Hilos : Get_53(t)
    \/ \E t \in Hilos : Get_57(t)
    \/ \E t \in Hilos, key \in Claves, value \in Valores : Set_64(t, key, value)
    \/ \E t \in Hilos : Set_68(t)
    \/ \E t \in Hilos : Set_71(t)
    \/ \E t \in Hilos : Set_74(t)
    \/ \E t \in Hilos : Set_75(t)
    \/ \E t \in Hilos : Clear(t)
    \/ PasarSegundo

SpecLRU == InitLRU /\ [][NextLRU]_vars

\* Requests of two clients reach the rate limiter
InitLimite ==
    /\ pc = "reposo"
    /\ SinEvaluacion
    /\ pool = Some("SimpleConnectionPool")
    /\ recomendacion_config = TablaVacia
    /\ config_respuesta = SinRespuesta
    /\ EnServicio
    /\ evaluacion = SinEvaluar
    /\ plantilla_recomendacion = <<>>
    /\ textos = SinTextos
    /\ llamadas = [c \in Clientes |-> SinPedido]
    /\ recomendacion_operativa = {}
    /\ ahora = 0
    /\ cache = CacheNueva(TRUE)
    /\ hilos = [t \in Hilos |-> HiloLibre]
    /\ tiempo = 0
    /\ usos = [orden |-> <<>>, secuencial |-> TRUE, llamadas |-> 0]
    /\ rate_limit \in {RateLimitNuevo(enabled) : enabled \in BOOLEAN}
    /\ despachos = [p \in Peticiones |-> SinDespacho]

NextLimite ==
    \/ \E p \in Peticiones, client_ip \in IPs : Dispatch_28(p, client_ip)
    \/ \E p \in Peticiones : Dispatch_52(p)
    \/ PasarSegundo

SpecLimite == InitLimite /\ [][NextLimite]_vars

----------------------------------------------------------------------------
(* Properties of the classifier *)

\* The operational track the evaluation was given
SerieOperativa ==
    [i \in 1..Len(prediccion.predicciones) |->
        prediccion.predicciones[i].pred_aemet_ruido]

\* _clasificar_riesgo has been called (it returned or it raised)
ClasificadorLlamado == metricas.estado = "ok" /\ clasificacion.estado # "pendiente"

\* _clasificar_riesgo returned a verdict
HayVeredicto == metricas.estado = "ok" /\ clasificacion.estado = "ok"

UmbralAlto == config.umbral_alto_relativo * nivel_maximo
UmbralModerado == config.umbral_moderado_relativo * nivel_maximo
UmbralMinimo == config.umbral_minimo_relativo * nivel_maximo

SuperaAlto == 100 * metricas.nivel_max_esperado >= UmbralAlto
BajoMinimo == 100 * metricas.nivel_min_esperado <= UmbralMinimo
SuperaModerado == 100 * metricas.nivel_max_esperado >= UmbralModerado

\* C1: whenever the classifier is given an expanded max at or above the high
\* threshold together with an expanded min at or below the drought
\* threshold, the verdict is ALTO with severity 3, never SEQUIA.  Stated
\* here for the configurations with drought < moderate < high <= 1.0 only.
C1_PrioridadAlto ==
    (ClasificadorLlamado /\ ConfigValida(config) /\ SuperaAlto /\ BajoMinimo)
        => /\ clasificacion.estado = "ok"
           /\ clasificacion.nivel_riesgo = ALTO
           /\ clasificacion.nivel_severidad = 3

\* C2: for a non-empty track, a capacity > 0 and a configuration with
\* drought < moderate < high <= 1.0, the classifier completes without
\* raising and returns one of the four levels.
C2_Totalidad ==
    (ClasificadorLlamado /\ ConfigValida(config) /\ nivel_maximo > 0)
        => /\ clasificacion.estado = "ok"
           /\ clasificacion.nivel_riesgo \in NivelRiesgo

\* C3: the verdict follows the strict priority order on the expanded band,
\* with inclusive comparisons: ALTO iff max >= high; else SEQUIA iff
\* min <= drought; else MODERADO iff max >= moderate; else BAJO.  Stated
\* here for the configurations with drought < moderate < high <= 1.0 only.
C3_OrdenPrioridad ==
    (ClasificadorLlamado /\ ConfigValida(config))
        => /\ clasificacion.estado = "ok"
           /\ clasificacion.nivel_riesgo = ALTO <=> SuperaAlto
           /\ clasificacion.nivel_riesgo = SEQUIA <=> (~SuperaAlto /\ BajoMinimo)
           /\ clasificacion.nivel_riesgo = MODERADO
                <=> (~SuperaAlto /\ ~BajoMinimo /\ SuperaModerado)
           /\ clasificacion.nivel_riesgo = BAJO
                <=> (~SuperaAlto /\ ~BajoMinimo /\ ~SuperaModerado)

\* Minimum and maximum of the track, stated on the input
EsMinimoDeSerie(v) ==
    /\ \E i \in 1..Len(SerieOperativa) : SerieOperativa[i] = v
    /\ \A i \in 1..Len(SerieOperativa) : v <= SerieOperativa[i]
EsMaximoDeSerie(v) ==
    /\ \E i \in 1..Len(SerieOperativa) : SerieOperativa[i] = v
    /\ \A i \in 1..Len(SerieOperativa) : v >= SerieOperativa[i]

MaeConocido == prediccion.mae_historico # None

\* C4 as stated: with a known MAE the band is [mean - k*MAE, mean + k*MAE],
\* mean being the mean of the track; without one it is [min, max].
C4_BandaSobreMedia ==
    metricas.estado = "ok" =>
        IF MaeConocido
        THEN LET n == Len(SerieOperativa)
                 d == config.k_sigma * Val(prediccion.mae_historico)
             IN  /\ metricas.nivel_max_esperado * n = Suma(SerieOperativa) + d * n
                 /\ metricas.nivel_min_esperado * n = Suma(SerieOperativa) - d * n
        ELSE /\ EsMaximoDeSerie(metricas.nivel_max_esperado)
             /\ EsMinimoDeSerie(metricas.nivel_min_esperado)

\* C4, amended: with a known MAE the band is
\* [min - k_sigma*MAE, max + k_sigma*MAE], min and max being those of the
\* track; without one it is exactly [min, max].
C4_BandaSobreMinMax ==
    metricas.estado = "ok" =>
        LET d == IF MaeConocido
                 THEN config.k_sigma * Val(prediccion.mae_historico) ELSE 0
        IN  /\ EsMaximoDeSerie(metricas.nivel_max_esperado - d)
            /\ EsMinimoDeSerie(metricas.nivel_min_esperado + d)
            /\ metricas.nivel_medio.num = Suma(SerieOperativa)
            /\ metricas.nivel_medio.den = Len(SerieOperativa)

\* C4 witness: a band widened by a known MAE around a track that is not flat
C4_Testigo ==
    /\ metricas.estado = "ok"
    /\ MaeConocido
    /\ metricas.nivel_min < metricas.nivel_max
    /\ metricas.nivel_max_esperado > metricas.nivel_max

\* Numerator and denominator (in hundredths) of the quotient of the class:
\* the distance of the expanded bound past the threshold of the class, and
\* the distance from that threshold to the next one (full capacity for ALTO,
\* the high threshold for MODERADO, level zero for SEQUIA)
ProbNum ==
    CASE clasificacion.nivel_riesgo = ALTO ->
            100 * metricas.nivel_max_esperado - UmbralAlto
      [] clasificacion.nivel_riesgo = MODERADO ->
            100 * metricas.nivel_max_esperado - UmbralModerado
      [] clasificacion.nivel_riesgo = SEQUIA ->
            UmbralMinimo - 100 * metricas.nivel_min_esperado
      [] OTHER -> 0
ProbDen ==
    CASE clasificacion.nivel_riesgo = ALTO -> 100 * nivel_maximo - UmbralAlto
      [] clasificacion.nivel_riesgo = MODERADO -> UmbralAlto - UmbralModerado
      [] clasificacion.nivel_riesgo = SEQUIA -> UmbralMinimo
      [] OTHER -> 1

ProbEnUnidad ==
    /\ clasificacion.probabilidad_superar.den > 0
    /\ clasificacion.probabilidad_superar.num >= 0
    /\ clasificacion.probabilidad_superar.num <= clasificacion.probabilidad_superar.den

\* capacity 654, expanded max 650, high_ratio 0.95
EsEjemplo654 ==
    /\ nivel_maximo = 654
    /\ metricas.nivel_max_esperado = 650
    /\ config.umbral_alto_relativo = 95

\* ALTO with probability (650 - 621.3)/(654 - 621.3), within 0.005 of 0.876
Ejemplo654 ==
    EsEjemplo654 =>
        /\ clasificacion.nivel_riesgo = ALTO
        /\ clasificacion.probabilidad_superar.num * 3270
             = 2870 * clasificacion.probabilidad_superar.den
        /\ 871 * clasificacion.probabilidad_superar.den
             <= 1000 * clasificacion.probabilidad_superar.num
        /\ 1000 * clasificacion.probabilidad_superar.num
             <= 881 * clasificacion.probabilidad_superar.den

\* C5 as stated: for every verdict other than BAJO the probability is the
\* distance past the class threshold divided by the distance to the next
\* threshold, it lies in [0, 1], and the 654/650/0.95 example gives ALTO
\* with about 0.876.  Stated here for the configurations with
\* drought < moderate < high <= 1.0 only.
C5_ProbabilidadEsCociente ==
    (HayVeredicto /\ ConfigValida(config) /\ clasificacion.nivel_riesgo # BAJO)
        => /\ ProbDen # 0
           /\ clasificacion.probabilidad_superar = Fraccion(ProbNum, ProbDen)
           /\ ProbEnUnidad
           /\ Ejemplo654

\* C5, amended: the probability is that quotient capped at 1 (for SEQUIA the
\* divisor is the drought threshold itself), and it lies in [0, 1]; the
\* example gives ALTO with (650-621.3)/(654-621.3).
C5_ProbabilidadAcotada ==
    (HayVeredicto /\ clasificacion.nivel_riesgo # BAJO)
        => /\ ProbDen > 0
           /\ clasificacion.probabilidad_superar =
                IF ProbNum >= ProbDen THEN Fraccion(1, 1)
                ELSE Fraccion(ProbNum, ProbDen)
           /\ ProbEnUnidad
           /\ Ejemplo654

\* C5 witness: an ALTO verdict whose expanded max lies beyond full capacity
C5_Testigo ==
    /\ HayVeredicto
    /\ ConfigValida(config)
    /\ clasificacion.nivel_riesgo = ALTO
    /\ metricas.nivel_max_esperado > nivel_maximo
    /\ clasificacion.probabilidad_superar = [num |-> 1, den |-> 1]

\* The threshold of the class of the verdict and the days of the track that
\* cross it (at or above for ALTO and MODERADO, at or below for SEQUIA)
UmbralDeClase ==
    CASE clasificacion.nivel_riesgo = ALTO -> UmbralAlto
      [] clasificacion.nivel_riesgo = MODERADO -> UmbralModerado
      [] OTHER -> UmbralMinimo
DiasQueCruzan ==
    {d \in 1..Len(SerieOperativa) :
        IF clasificacion.nivel_riesgo = SEQUIA
        THEN 100 * SerieOperativa[d] <= UmbralDeClase
        ELSE 100 * SerieOperativa[d] >= UmbralDeClase}

Primero(S) == CHOOSE d \in S : \A o \in S : d <= o
Ultimo(S) == CHOOSE d \in S : \A o \in S : d >= o

\* C6 as stated: days-to-breach is the first crossing day found searching
\* the track ascending for ALTO and MODERADO and descending for SEQUIA, and
\* None exactly when no day crosses.  Stated here for the configurations
\* with drought < moderate < high <= 1.0 only.
C6_BusquedaDescendenteEnSequia ==
    (HayVeredicto /\ ConfigValida(config) /\ clasificacion.nivel_riesgo # BAJO)
        => /\ clasificacion.dias_hasta_umbral = None <=> DiasQueCruzan = {}
           /\ DiasQueCruzan # {} =>
                clasificacion.dias_hasta_umbral =
                    IF clasificacion.nivel_riesgo = SEQUIA
                    THEN Some(Ultimo(DiasQueCruzan))
                    ELSE Some(Primero(DiasQueCruzan))

\* C6, amended: days-to-breach is the earliest day (counted from 1) whose
\* value crosses the threshold of the class, the track being searched in
\* ascending day order for every class; the crossing is upward (value >=
\* threshold) for ALTO and MODERADO and downward (value <= threshold) for
\* SEQUIA; it is None exactly when no day crosses.
C6_PrimerDiaDeCruce ==
    (HayVeredicto /\ clasificacion.nivel_riesgo # BAJO)
        => /\ clasificacion.dias_hasta_umbral = None <=> DiasQueCruzan = {}
           /\ DiasQueCruzan # {} =>
                clasificacion.dias_hasta_umbral = Some(Primero(DiasQueCruzan))

\* C6 witness: a SEQUIA verdict on a track with two crossing days
C6_Testigo ==
    /\ HayVeredicto
    /\ ConfigValida(config)
    /\ clasificacion.nivel_riesgo = SEQUIA
    /\ Cardinality(DiasQueCruzan) >= 2
    /\ clasificacion.dias_hasta_umbral = Some(1)

\* C7: the trend is one of ESTABLE, SUBIENDO, BAJANDO: ESTABLE iff
\* |final - current| <= 2% of |current|, otherwise SUBIENDO when the final
\* value is above the current level and BAJANDO when it is below.
C7_Tendencia ==
    metricas.estado = "ok" =>
        LET final == SerieOperativa[Len(SerieOperativa)]
            actual == metricas.nivel_actual
            enBanda == 100 * Abs(final - actual) <= 2 * Abs(actual)
        IN  /\ metricas.tendencia \in TendenciaNivel
            /\ metricas.tendencia = ESTABLE <=> enBanda
            /\ metricas.tendencia = SUBIENDO <=> (~enBanda /\ final > actual)
            /\ metricas.tendencia = BAJANDO <=> (~enBanda /\ final < actual)

\* C7 witness: a final value exactly 2% above the current level is ESTABLE
C7_Testigo ==
    /\ metricas.estado = "ok"
    /\ metricas.nivel_actual = 50
    /\ SerieOperativa[Len(SerieOperativa)] = 51
    /\ metricas.tendencia = ESTABLE

\* The flat track of seven values 10 under the moderate and high thresholds
PlanoDiezBajoUmbrales ==
    /\ SerieOperativa = Plana(10, HorizonteDefecto)
    /\ 100 * 10 < UmbralModerado
    /\ 100 * 10 < UmbralAlto

SinDiasParaTodoUmbral ==
    /\ _calcular_dias_hasta_umbral(SerieOperativa, UmbralAlto, "alto") = None
    /\ _calcular_dias_hasta_umbral(SerieOperativa, UmbralModerado, "alto") = None
    /\ _calcular_dias_hasta_umbral(SerieOperativa, UmbralMinimo, "bajo") = None

\* C8 as stated: horizon 7 and the flat track of seven 10s under the
\* moderate and high thresholds give trend ESTABLE and days-to-breach
\* unknown for every threshold.  Stated here for the configurations with
\* drought < moderate < high <= 1.0 and a current level of 10 only.
C8_PlanoEstableSinDias ==
    (pc = "clasificado" /\ PlanoDiezBajoUmbrales
        /\ ConfigValida(config) /\ metricas.nivel_actual = 10)
        => /\ metricas.tendencia = ESTABLE
           /\ clasificacion.dias_hasta_umbral = None
           /\ SinDiasParaTodoUmbral

\* C8, amended: horizon 7 and the flat track of seven 10s that lies under
\* the moderate and high thresholds and above the drought threshold, with
\* a current level of 10, give trend ESTABLE and days-to-breach unknown for
\* every threshold.
C8_PlanoSobreSequia ==
    (pc = "clasificado" /\ PlanoDiezBajoUmbrales
        /\ 100 * 10 > UmbralMinimo /\ metricas.nivel_actual = 10)
        => /\ metricas.tendencia = ESTABLE
           /\ clasificacion.dias_hasta_umbral = None
           /\ SinDiasParaTodoUmbral

\* C8 witness: that flat track evaluated to BAJO from a current level of 10
C8_Testigo ==
    /\ pc = "clasificado"
    /\ ConfigValida(config)
    /\ PlanoDiezBajoUmbrales
    /\ 100 * 10 > UmbralMinimo
    /\ metricas.nivel_actual = 10
    /\ nivel_maximo = 654
    /\ clasificacion.nivel_riesgo = BAJO

----------------------------------------------------------------------------
(* Properties of the configuration *)

\* The row obtener_config_embalse finds for the station, if any
FilaEfectiva(codigo_saih) ==
    IF Some(codigo_saih) \in DOMAIN recomendacion_config
          /\ recomendacion_config[Some(codigo_saih)] # None
    THEN recomendacion_config[Some(codigo_saih)]
    ELSE recomendacion_config[None]

\* C9: obtener_configuracion_embalse never fails: for every station and
\* every state of the store it returns the stored row of the station (or the
\* stored effective row) when there is one and the hard defaults otherwise.
C9_ConfiguracionNuncaFalla ==
    config_respuesta.op = "obtener_configuracion_embalse"
        => /\ config_respuesta.estado = "ok"
           /\ config_respuesta.config =
                IF FilaEfectiva(config_respuesta.codigo_saih) # None
                THEN FilaEfectiva(config_respuesta.codigo_saih)
                ELSE Some([id |-> None,
                           umbral_alto_relativo |-> 95,
                           umbral_moderado_relativo |-> 80,
                           umbral_minimo_relativo |-> 30,
                           horizonte_dias |-> 7,
                           k_sigma |-> 2])

\* C10: every configuration accepted for storage, and every configuration
\* handed to the classifier, has drought < moderate < high <= 1.0.
C10_ConfiguracionOrdenada ==
    /\ \A k \in DOMAIN recomendacion_config :
          recomendacion_config[k] # None => ConfigValida(Val(recomendacion_config[k]))
    /\ (pc \in {"inicio", "metricas", "clasificado", "error"}
            \/ evaluacion.estado # "pendiente") => ConfigValida(config)

----------------------------------------------------------------------------
(* Properties of the forecast engine *)

EsVentana == resultado.op = "_build_window"
EsPrediccion == resultado.op = "predecir_embalse"
SalidaOk == resultado.salida.estado = "ok"
ServicioCargadoEnLlamada ==
    /\ resultado.servicio.model # None
    /\ resultado.servicio.scalers # None

\* The dates on which a station has a record
FechasDe(codigo_saih) ==
    IF series[codigo_saih] = None THEN {}
    ELSE {Val(series[codigo_saih])[k].fecha : k \in 1..Len(Val(series[codigo_saih]))}

\* Records of the call's station at or before, and after, the anchor
FechasHasta == {d \in FechasDe(resultado.codigo_saih) : d <= resultado.fecha}
FechasDespues == {d \in FechasDe(resultado.codigo_saih) : d > resultado.fecha}

LookbackLlamada == resultado.servicio.lookback
NumFeatures == Len(resultado.servicio.hist_cols)

\* The L latest dates at or before the anchor
UltimasFechas ==
    {d \in FechasHasta : Cardinality({e \in FechasHasta : e > d}) < LookbackLlamada}

\* The k-th smallest element of a set of dates
Enesima(S, k) == CHOOSE d \in S : Cardinality({e \in S : e < d}) = k - 1

ScalerLlamada == Val(resultado.servicio.scalers)[resultado.codigo_saih]

\* The normalised features of the record of day d
FilaNormalizada(d) ==
    MinMaxScaler_transform(ScalerLlamada,
        Columnas(<<Registro(d)>>, resultado.servicio.hist_cols))[1]

FaltaHistorial ==
    /\ resultado.salida.estado = "error"
    /\ resultado.salida.mensaje = "No hay suficientes datos previos"

\* C11: in both scenarios _build_window fails for lack of history, returning
\* no window, exactly when fewer than L records are dated at or before the
\* anchor, and otherwise the historical block of the window holds the L
\* latest such records, oldest first, and no record after the anchor.
C11_UltimosRegistros ==
    EsVentana
        => /\ FaltaHistorial <=> Cardinality(FechasHasta) < LookbackLlamada
           /\ SalidaOk =>
                \A k \in 1..LookbackLlamada :
                    SubSeq(resultado.salida.x[k], 1, NumFeatures)
                        = FilaNormalizada(Enesima(UltimasFechas, k))

\* C11 witness: a window built where more than L records precede the anchor
\* and at least one follows it
C11_Testigo ==
    /\ EsVentana
    /\ SalidaOk
    /\ Cardinality(FechasHasta) > LookbackLlamada
    /\ FechasDespues # {}

\* C12: every window returned has exactly L rows of 2F columns: the F
\* normalised features of a historical record followed by an F-component
\* future summary that is the same in all L rows.
C12_FormaDeVentana ==
    (EsVentana /\ SalidaOk)
        => /\ Len(resultado.salida.x) = LookbackLlamada
           /\ \A k \in 1..Len(resultado.salida.x) :
                /\ Len(resultado.salida.x[k]) = 2 * NumFeatures
                /\ SubSeq(resultado.salida.x[k], 1, NumFeatures)
                     = FilaNormalizada(Enesima(UltimasFechas, k))
                /\ SubSeq(resultado.salida.x[k], NumFeatures + 1, 2 * NumFeatures)
                     = SubSeq(resultado.salida.x[1], NumFeatures + 1, 2 * NumFeatures)

\* C12 witness: an operational window whose future summary is not all zero
C12_Testigo ==
    /\ EsVentana
    /\ SalidaOk
    /\ resultado.mode = "aemet_ruido"
    /\ \E j \in 1..NumFeatures : resultado.salida.x[1][NumFeatures + j] # 0

\* C13: a result returned by predecir_embalse for horizon H has exactly H
\* rows, each holding a value of both tracks, dated anchor+1 .. anchor+H in
\* increasing order.
C13_LargoIgualHorizonte ==
    (EsPrediccion /\ SalidaOk)
        => /\ Len(resultado.salida.filas) = resultado.horizonte
           /\ \A i \in 1..Len(resultado.salida.filas) :
                /\ resultado.salida.filas[i].fecha = resultado.fecha + i
                /\ {"pred_hist", "pred"} \subseteq DOMAIN resultado.salida.filas[i]

\* C13 witness: a result for the longest horizon the network can serve
C13_Testigo ==
    /\ EsPrediccion
    /\ SalidaOk
    /\ resultado.horizonte = resultado.servicio.horizon
    /\ Len(resultado.salida.filas) > 1

\* The historical-scenario window for the arguments of the recorded call
VentanaHistorica ==
    _build_window(resultado.servicio, Val(series[resultado.codigo_saih]),
                  resultado.fecha, ScalerLlamada, "hist", resultado.horizonte,
                  resultado.semilla)

\* C14: with fewer than H records after the anchor the operational window
\* is, cell for cell, the historical window of the same series, anchor and
\* scaler (its future summary all zero), and no noise is drawn.
C14_SinFuturoComoHistorico ==
    (EsVentana /\ resultado.mode = "aemet_ruido"
        /\ Cardinality(FechasDespues) < resultado.horizonte)
        => /\ resultado.salida.estado = VentanaHistorica.estado
           /\ resultado.salida.rng = resultado.semilla
           /\ SalidaOk =>
                /\ resultado.salida.x = VentanaHistorica.x
                /\ \A k \in 1..Len(resultado.salida.x), j \in 1..NumFeatures :
                     resultado.salida.x[k][NumFeatures + j] = 0

\* C14 witness: an operational window built with some, but fewer than H,
\* records after the anchor
C14_Testigo ==
    /\ EsVentana
    /\ SalidaOk
    /\ resultado.mode = "aemet_ruido"
    /\ FechasDespues # {}
    /\ Cardinality(FechasDespues) < resultado.horizonte

TieneScaler ==
    /\ resultado.servicio.scalers # None
    /\ resultado.codigo_saih \in DOMAIN Val(resultado.servicio.scalers)
SerieDisponible == series[resultado.codigo_saih] # None
PrimeraFecha == Enesima(FechasDe(resultado.codigo_saih), 1)

\* C15: on a loaded service predecir_embalse fails for the unknown station
\* when the station has no scaler, whether or not it has a series, and for a
\* station with scaler and series it fails for the early date exactly when
\* the anchor is before the earliest record date plus L days; neither
\* failure produces a track.
C15_EstacionYFecha ==
    (EsPrediccion /\ ServicioCargadoEnLlamada)
        => /\ ~TieneScaler =>
                /\ resultado.salida.estado = "error"
                /\ resultado.salida.mensaje = "No hay scaler para el embalse"
           /\ (TieneScaler /\ SerieDisponible) =>
                ((resultado.salida.estado = "error"
                    /\ resultado.salida.mensaje = "es demasiado temprana")
                 <=> resultado.fecha < PrimeraFecha + LookbackLlamada)

\* C15 witness: an anchor exactly L days after the earliest record, accepted
C15_Testigo ==
    /\ EsPrediccion
    /\ ServicioCargadoEnLlamada
    /\ TieneScaler
    /\ SerieDisponible
    /\ resultado.fecha = PrimeraFecha + LookbackLlamada
    /\ SalidaOk

\* The condition a caller reads from a failed call
CondicionDe(salida) ==
    IF salida.clase # "ValueError" THEN "otra"
    ELSE IF salida.mensaje = "No hay scaler para el embalse" THEN "UnknownStation"
    ELSE IF salida.mensaje = "es demasiado temprana" THEN "DateTooEarly"
    ELSE IF salida.mensaje = "No hay suficientes datos previos" THEN "InsufficientHistory"
    ELSE IF salida.mensaje \in {"All arrays must be of the same length",
                                "Found array with 0 sample(s)"} THEN "InvalidHorizon"
    ELSE "otra"

\* The out-of-range inputs of the recorded call
CondicionesPresentes ==
    (IF ~TieneScaler THEN {"UnknownStation"} ELSE {})
    \cup (IF SerieDisponible /\ resultado.fecha < PrimeraFecha + LookbackLlamada
          THEN {"DateTooEarly"} ELSE {})
    \cup (IF SerieDisponible /\ Cardinality(FechasHasta) < LookbackLlamada
          THEN {"InsufficientHistory"} ELSE {})
    \cup (IF resultado.horizonte < 1 \/ resultado.horizonte > resultado.servicio.horizon
          THEN {"InvalidHorizon"} ELSE {})

C17_NivelRealPorFecha ==
    (EsPrediccion /\ SalidaOk)
        => /\ Len(resultado.salida.filas) = resultado.horizonte
           /\ \A i \in 1..Len(resultado.salida.filas) :
                /\ resultado.salida.filas[i].fecha = resultado.fecha + i
                /\ resultado.salida.filas[i].nivel_real =
                     IF resultado.fecha + i \in FechasDe(resultado.codigo_saih)
                     THEN Some(Registro(resultado.fecha + i).nivel)
                     ELSE None

\* C17 witness: a result with one observed level and one missing
C17_Testigo ==
    /\ EsPrediccion
    /\ SalidaOk
    /\ \E i \in 1..Len(resultado.salida.filas) :
            resultado.salida.filas[i].nivel_real = None
    /\ \E i \in 1..Len(resultado.salida.filas) :
            resultado.salida.filas[i].nivel_real # None

\* The level feature alone, normalised and denormalised by a scaler
IdaYVuelta(scaler, v) ==
    LET nivel_idx == Index(servicio.hist_cols, "nivel")
        fila == [j \in 1..Len(servicio.hist_cols) |-> IF j = nivel_idx THEN v ELSE 0]
        normal == MinMaxScaler_transform(scaler, <<fila>>)[1][nivel_idx]
    IN  Desnormalizar(servicio, scaler, <<normal>>)[1]

\* C18: for every station and every level v inside the station's range
\* [min, max] of the level feature, denormalising the normalised v gives v
\* back (a forecast level is held in 1/600 of a level unit).
C18_IdaYVueltaNivel ==
    servicio.scalers # None
        => \A c \in DOMAIN Val(servicio.scalers) :
             LET scaler == Val(servicio.scalers)[c]
                 nivel_idx == Index(servicio.hist_cols, "nivel")
             IN  \A v \in scaler.data_min_[nivel_idx]..scaler.data_max_[nivel_idx] :
                    IdaYVuelta(scaler, v) = 600 * v

\* C18 witness: a window whose latest level cell, denormalised, is the level
\* of the latest record at or before the anchor
C18_Testigo ==
    /\ EsVentana
    /\ SalidaOk
    /\ servicio.scalers # None
    /\ LET nivel_idx == Index(servicio.hist_cols, "nivel")
           d == Enesima(UltimasFechas, LookbackLlamada)
       IN  /\ Registro(d).nivel >= ScalerLlamada.data_min_[nivel_idx]
           /\ Desnormalizar(servicio, ScalerLlamada,
                            <<resultado.salida.x[LookbackLlamada][nivel_idx]>>)[1]
                = 600 * Registro(d).nivel

\* The recorded call made again from generator state s
Repetida(s) ==
    predecir_embalse(resultado.servicio, series, s, resultado.codigo_saih,
                     resultado.fecha, resultado.horizonte)

Pista(filas, columna) == [i \in 1..Len(filas) |-> filas[i][columna]]

----------------------------------------------------------------------------
(* Properties of the recommendation texts *)

\* C20: with an empty template store the composer returns a motivo and an
\* accion that are both non-empty, for each of the four levels and whatever
\* the metrics and the horizon, on every capacity evaluar_riesgo_embalse lets
\* through (recomendacion.py:132-134 rejects a missing or zero capacity).
C20_TextosBasicosCompletos ==
    (pc \in {"textos", "error"} /\ clasificacion.estado = "ok"
        /\ plantilla_recomendacion = <<>>)
        => /\ textos.estado = "ok"
           /\ textos.motivo # <<>>
           /\ textos.accion # <<>>

\* C20 witness: the fallback texts of a LOW verdict, from the empty store
C20_Testigo ==
    /\ pc = "textos"
    /\ plantilla_recomendacion = <<>>
    /\ clasificacion.nivel_riesgo = BAJO
    /\ textos.origen = "basicos"
    /\ Len(textos.motivo) > 1

----------------------------------------------------------------------------
(* Further properties of the classifier *)

\* The crossing condition of a class on a level v of the track
CruzaUmbralDe(nivel, v) ==
    CASE nivel = ALTO -> 100 * v >= UmbralAlto
      [] nivel = MODERADO -> 100 * v >= UmbralModerado
      [] nivel = SEQUIA -> 100 * v <= UmbralMinimo
      [] OTHER -> FALSE

SeveridadDe(nivel) ==
    CASE nivel = BAJO -> 1
      [] nivel = MODERADO -> 2
      [] nivel = ALTO -> 3
      [] nivel = SEQUIA -> 4

\* C28: without a known MAE every verdict other than BAJO carries a day d
\* with 1 <= d <= H whose track value crosses the threshold of the class,
\* every BAJO verdict carries probability 0 and no day, and the severity is
\* 1, 2, 3, 4 for BAJO, MODERADO, ALTO, SEQUIA.
C28_DiasYSeveridad ==
    HayVeredicto =>
        /\ clasificacion.nivel_severidad = SeveridadDe(clasificacion.nivel_riesgo)
        /\ clasificacion.nivel_riesgo = BAJO =>
                /\ clasificacion.probabilidad_superar.num = 0
                /\ clasificacion.dias_hasta_umbral = None
        /\ (clasificacion.nivel_riesgo # BAJO /\ ~MaeConocido) =>
                /\ clasificacion.dias_hasta_umbral # None
                /\ LET d == Val(clasificacion.dias_hasta_umbral)
                   IN  /\ 1 <= d
                       /\ d <= Len(SerieOperativa)
                       /\ CruzaUmbralDe(clasificacion.nivel_riesgo, SerieOperativa[d])

\* C28 witness: a MODERADO verdict without MAE whose first day stays below
\* the threshold and whose second day crosses it
C28_Testigo ==
    /\ HayVeredicto
    /\ ~MaeConocido
    /\ clasificacion.nivel_riesgo = MODERADO
    /\ clasificacion.dias_hasta_umbral = Some(2)
    /\ ~CruzaUmbralDe(MODERADO, SerieOperativa[1])

----------------------------------------------------------------------------
(* Further properties of the forecast engine *)

FalloFechaTemprana ==
    /\ resultado.salida.estado = "error"
    /\ resultado.salida.mensaje = "es demasiado temprana"

\* One record for every day from the earliest record through the anchor
SerieDensaHastaAncla ==
    /\ SerieDisponible
    /\ \A d \in PrimeraFecha..resultado.fecha : d \in FechasDe(resultado.codigo_saih)

\* C29: for a station with a record on every day from its earliest date
\* through the anchor, a call of predecir_embalse that the date check lets
\* through has at least L records at or before the anchor and does not fail
\* for lack of history.
C29_SerieDensaConHistorial ==
    (EsPrediccion /\ ServicioCargadoEnLlamada /\ TieneScaler
        /\ SerieDensaHastaAncla /\ ~FalloFechaTemprana)
        => /\ Cardinality(FechasHasta) >= LookbackLlamada
           /\ ~FaltaHistorial

\* C29 witness: the earliest accepted anchor of a series that is dense up to
\* the anchor and has a gap after it, answered with a result
C29_Testigo ==
    /\ EsPrediccion
    /\ ServicioCargadoEnLlamada
    /\ TieneScaler
    /\ SerieDensaHastaAncla
    /\ resultado.fecha = PrimeraFecha + LookbackLlamada
    /\ \E d \in resultado.fecha..MaxFecha : d \notin FechasDe(resultado.codigo_saih)
    /\ SalidaOk

\* A series with a gap before the anchor does fail for lack of history
\* after the date check has passed
ConHuecosFaltaHistorial ==
    /\ EsPrediccion
    /\ ServicioCargadoEnLlamada
    /\ TieneScaler
    /\ SerieDisponible
    /\ resultado.fecha >= PrimeraFecha + LookbackLlamada
    /\ FaltaHistorial

\* C30 as stated: after any sequence of load_model calls, failed ones
\* included, the model and the scalers are both present or both absent.
C30_CargaAtomica ==
    (servicio.model # None) <=> (servicio.scalers # None)

\* A load_model call on a service that holds a model changes no attribute
CargaUnaVez ==
    [][\A falla \in FallosCarga :
          (LoadModel(falla) /\ servicio.model # None) => servicio' = servicio]_vars

\* predecir_embalse and _build_window leave the attributes of the service as
\* they found them
PrediccionSoloLee ==
    [][resultado' # resultado => servicio' = servicio]_vars

\* A service left with a network and without scalers answers a forecast
\* call with an error that is none of the conditions of the engine
MedioCargadoFalla ==
    /\ EsPrediccion
    /\ resultado.servicio.model # None
    /\ resultado.servicio.scalers = None
    /\ resultado.salida.estado = "error"
    /\ resultado.salida.clase = "TypeError"

----------------------------------------------------------------------------
(* Properties of the risk analysis *)

EsAnalisis == resultado.op = "analizar_riesgo"

EnUnidad(p) == 0 <= p.num /\ p.num <= p.den

\* C27 as stated: for every track and every pair of thresholds a caller may
\* pass, the three probabilities analizar_riesgo returns lie in [0, 1] and
\* sum to 1, and the category is one of BAJO, MEDIO, ALTO.
C27_ProbabilidadesDeRiesgo ==
    (EsAnalisis /\ SalidaOk)
        => LET s == resultado.salida
           IN  /\ EnUnidad(s.prob_riesgo_bajo)
               /\ EnUnidad(s.prob_riesgo_medio)
               /\ EnUnidad(s.prob_riesgo_alto)
               /\ s.prob_riesgo_bajo.num + s.prob_riesgo_medio.num
                    + s.prob_riesgo_alto.num = s.prob_riesgo_bajo.den
               /\ s.categoria_riesgo \in {"BAJO", "MEDIO", "ALTO"}

\* What does hold for every pair of thresholds: the sum and the category,
\* and the range for pairs with umbral_minimo <= umbral_maximo
RiesgoConUmbralesOrdenados ==
    (EsAnalisis /\ SalidaOk)
        => LET s == resultado.salida
           IN  /\ s.prob_riesgo_bajo.num + s.prob_riesgo_medio.num
                    + s.prob_riesgo_alto.num = s.prob_riesgo_bajo.den
               /\ s.categoria_riesgo \in {"BAJO", "MEDIO", "ALTO"}
               /\ EnUnidad(s.prob_riesgo_bajo)
               /\ EnUnidad(s.prob_riesgo_alto)
               /\ s.umbral_minimo <= s.umbral_maximo => EnUnidad(s.prob_riesgo_medio)

----------------------------------------------------------------------------
(* Properties of forecast requests in flight together *)

Atendida(c) == llamadas[c].pc = "hecho" /\ llamadas[c].salida.estado = "ok"

\* What the call of client c returns when it runs alone from the state in
\* which its request arrived
SolaDesdeLlegada(c) ==
    predecir_embalse(servicio, series, llamadas[c].semilla, llamadas[c].codigo_saih,
                     llamadas[c].fecha, llamadas[c].horizonte)

PistaHistorica(filas) == [k \in 1..Len(filas) |-> filas[k].pred_hist]

\* C22 as stated: each of two forecast calls in flight together returns the
\* tracks it returns when run alone from the same state of the generator.
C22_LlamadasIndependientes ==
    \A c \in Clientes :
        Atendida(c) => llamadas[c].salida.filas = SolaDesdeLlegada(c).filas

\* The call of one client changes nothing that the pending call of the
\* other reads
NadaCompartido ==
    [][\A c \in Clientes :
          (GenerarPrediccion(c)
             /\ \E o \in Clientes \ {c} : llamadas[o].pc = "pendiente")
          => rng' = rng]_vars

\* What the calls do not share: the historical track of each call is that of
\* the call run alone, and the service and the series are left as found
PistaHistoricaIndependiente ==
    \A c \in Clientes :
        Atendida(c) =>
            PistaHistorica(llamadas[c].salida.filas)
                = PistaHistorica(SolaDesdeLlegada(c).filas)

----------------------------------------------------------------------------
(* Properties of evaluar_riesgo_embalse *)

DesdeAlmacen ==
    /\ evaluacion.estado = "ok"
    /\ "origen" \in DOMAIN evaluacion
    /\ evaluacion.origen = "recomendacion_operativa"

\* C21 as stated: a stored recommendation is returned only if it was
\* generated for the station of the request less than six hours before it
\* and with the fecha_inicio and the horizonte of the request.
C21_AlmacenConParametros ==
    DesdeAlmacen =>
        /\ evaluacion.recomendacion.codigo_saih = evaluacion.pedido.codigo_saih
        /\ evaluacion.recomendacion.fecha_generacion > evaluacion.hora - HorasVigencia
        /\ evaluacion.recomendacion.fecha_inicio = evaluacion.pedido.fecha_inicio
        /\ evaluacion.pedido.horizonte # None =>
                evaluacion.recomendacion.horizonte_dias = Val(evaluacion.pedido.horizonte)

\* What the lookup does keep to: the station and the six hours, and the
\* latest of the rows that qualify
AlmacenPorEstacionYHora ==
    DesdeAlmacen =>
        /\ evaluacion.recomendacion \in recomendacion_operativa
        /\ evaluacion.recomendacion.codigo_saih = evaluacion.pedido.codigo_saih
        /\ evaluacion.recomendacion.fecha_generacion > evaluacion.hora - HorasVigencia
        /\ \A o \in recomendacion_operativa :
              (o.codigo_saih = evaluacion.pedido.codigo_saih
                 /\ o.codigo_saih \in Estaciones
                 /\ o.fecha_generacion > evaluacion.hora - HorasVigencia)
              => o.fecha_generacion <= evaluacion.recomendacion.fecha_generacion

\* The forecast was returned to evaluar_riesgo_embalse
PrediccionEntregada == "df_prediccion" \in DOMAIN evaluacion

\* C23 as stated: whenever predecir_embalse returns a result for a station
\* with capacity, evaluar_riesgo_embalse with forzar_regeneracion reads the
\* operational track as delivered and returns a verdict.
C23_LeeLaPistaOperativa ==
    PrediccionEntregada
        => /\ evaluacion.estado = "ok"
           /\ clasificacion.estado = "ok"
           /\ SerieOperativa =
                [k \in 1..Len(evaluacion.df_prediccion) |-> evaluacion.df_prediccion[k].pred]

----------------------------------------------------------------------------
(* Further properties of the recommendation texts *)

TextosGenerados == pc \in {"textos", "error"} /\ clasificacion.estado = "ok"

\* The rows of the store that apply to the verdict and the trend
FilasQueAplican ==
    {k \in 1..Len(plantilla_recomendacion) :
        /\ plantilla_recomendacion[k].nivel_riesgo = clasificacion.nivel_riesgo
        /\ plantilla_recomendacion[k].activo
        /\ plantilla_recomendacion[k].condicion_tendencia \in {None, Some(metricas.tendencia)}}

TiposHallados == {plantilla_recomendacion[k].tipo_plantilla : k \in FilasQueAplican}

\* The template of a kind that is used: the last row of the kind that applies
PlantillaDe(tipo) ==
    plantilla_recomendacion[
        Ultimo({k \in FilasQueAplican : plantilla_recomendacion[k].tipo_plantilla = tipo})
    ].plantilla

\* The names a template of each kind may use
ParametrosDe(tipo) ==
    IF tipo = "motivo"
    THEN {"porcentaje", "nivel_pred", "nivel_max", "nivel_actual", "dias", "mae",
          "tendencia", "umbral_min"}
    ELSE {"volumen_reducir", "volumen_reducir_max", "dias"}

CamposDe(texto) == {texto[k].campo : k \in {j \in 1..Len(texto) : "campo" \in DOMAIN texto[j]}}

PorcentajeDeCapacidad ==
    Formato(100 * metricas.nivel_medio.num, metricas.nivel_medio.den * nivel_maximo, 10, 1)

\* C24: on every capacity evaluar_riesgo_embalse lets through,
\* _generar_textos_recomendacion returns (it does not raise) a motivo and an
\* accion; they come from the stored templates exactly when the query of the
\* store succeeds and finds both kinds, and from the fallback of the level
\* otherwise; a template with a placeholder that has no parameter is
\* returned as its literal text, and any other one with every placeholder
\* replaced.
C24_TextosSiempre ==
    TextosGenerados
        => /\ textos.estado = "ok"
           /\ {"motivo", "accion"} \subseteq DOMAIN textos
           /\ textos.origen = "plantillas"
                <=> (textos.consulta = "ok" /\ {"motivo", "accion"} \subseteq TiposHallados)
           /\ textos.origen # "plantillas" =>
                LET b == _generar_textos_basicos(clasificacion.nivel_riesgo, metricas,
                            nivel_maximo, config.horizonte_dias, PorcentajeDeCapacidad)
                IN  textos.motivo = b.motivo /\ textos.accion = b.accion
           /\ textos.origen = "plantillas" =>
                \A tipo \in {"motivo", "accion"} :
                    IF CamposDe(PlantillaDe(tipo)) \subseteq ParametrosDe(tipo)
                    THEN /\ CamposDe(textos[tipo]) = {}
                         /\ Len(textos[tipo]) = Len(PlantillaDe(tipo))
                    ELSE textos[tipo] = PlantillaDe(tipo)

\* C24 witness: a SEQUIA verdict for which the store has both kinds, the
\* motivo template naming a placeholder that has no parameter, returned as
\* its literal text next to a filled accion
C24_Testigo ==
    /\ pc = "textos"
    /\ clasificacion.nivel_riesgo = SEQUIA
    /\ textos.origen = "plantillas"
    /\ CamposDe(PlantillaDe("motivo")) # {}
    /\ ~(CamposDe(PlantillaDe("motivo")) \subseteq ParametrosDe("motivo"))
    /\ textos.motivo = PlantillaDe("motivo")

\* The fallback is used when the store has one kind only, and when the
\* query of the store raises
UnSoloTipo ==
    /\ pc = "textos"
    /\ textos.consulta = "ok"
    /\ TiposHallados = {"motivo"}
    /\ textos.origen = "basicos"
ConsultaFallida ==
    /\ pc = "textos"
    /\ textos.consulta # "ok"
    /\ {"motivo", "accion"} \subseteq TiposHallados
    /\ textos.origen = "basicos"
----------------------------------------------------------------------------
(* Properties of the response cache *)

\* no call into the cache has raised
SinErroresCache == \A t \in Hilos : hilos[t].salida.estado # "error"

\* no set is between storing its entry and evicting the oldest one
NingunSetAMedias == \A t \in Hilos : hilos[t].paso \notin {"set_74", "set_75"}

\* outside a set, the cache holds at most max_size entries
CacheAcotada == NingunSetAMedias => Len(cache.cache) <= CacheMaxSize

\* the entry of the cache whose last set or successful get is the oldest
MenosUsada ==
    usos.orden[CHOOSE i \in 1..Len(usos.orden) :
                    /\ Contiene(cache.cache, usos.orden[i])
                    /\ \A j \in 1..(i - 1) :
                            ~Contiene(cache.cache, usos.orden[j])]

\* the step is an eviction by thread t
Expulsa(t) ==
    /\ hilos[t].paso = "set_75"
    /\ hilos'[t].salida.estado = "retorno"

\* while no two calls have overlapped, an eviction removes the least
\* recently used entry and nothing else
ExpulsaLaMenosUsada ==
    \A t \in Hilos :
        (usos.secuencial /\ Expulsa(t)) =>
            cache'.cache = Quitar(cache.cache, MenosUsada)

\* C25: under every interleaving of get, set and clear from two threads no
\* call raises and the cache holds at most max_size entries, and in a
\* sequential run an overflowing set evicts the least recently used entry
C25_CacheSeguraYAcotada ==
    /\ []SinErroresCache
    /\ []CacheAcotada
    /\ [][ExpulsaLaMenosUsada]_vars

\* the sequential part alone
ExpulsionSecuencial == [][ExpulsaLaMenosUsada]_vars

\* without overlapping calls nothing raises
SecuencialSinErrores == usos.secuencial => SinErroresCache

\* an eviction did happen in a sequential run in which the oldest stored
\* entry was not the least recently used one
ExpulsionTrasGet ==
    /\ usos.secuencial
    /\ cache.stats.evictions = 1
    /\ cache.stats.hits = 1
    /\ Len(cache.cache) = CacheMaxSize
    /\ cache.cache[1].key = "a"
    /\ usos.orden = <<"b", "a", "c">>
----------------------------------------------------------------------------
(* Properties of the rate limiter *)

\* the request was handed to call_next
Reenviada(p) == despachos[p].paso \in {"call_next", "respondida"}

\* requests of the client forwarded in the span of Window seconds ending at t
ReenviadasEn(client_ip, t) ==
    {p \in Peticiones :
        /\ Reenviada(p)
        /\ despachos[p].client_ip = client_ip
        /\ despachos[p].current_time <= t
        /\ t - despachos[p].current_time < Window}

\* earlier requests of the same client that were forwarded and were still
\* inside the window when p arrived
DentroAlLlegar(p) ==
    {q \in 1..(p - 1) :
        /\ Reenviada(q)
        /\ despachos[q].client_ip = despachos[p].client_ip
        /\ despachos[p].current_time - despachos[q].current_time < Window}

\* entries of the client's list that are inside the window now
ContadasAhora(client_ip) ==
    {i \in 1..Len(rate_limit.requests[client_ip]) :
        tiempo - rate_limit.requests[client_ip][i].ts < Window}

SinLimite ==
    ~rate_limit.enabled =>
        \A p \in Peticiones :
            /\ despachos[p].paso # "rechazada"
            /\ despachos[p].paso = "respondida" => despachos[p].headers = None
\* the same bound over spans that include both ends, Window seconds apart:
\* an entry exactly Window seconds old is dropped at rate_limit.py:36, so
\* this is not an invariant
LimiteEnVentanaCerrada ==
    rate_limit.enabled =>
        \A client_ip \in IPs, t \in 0..MaxTiempo :
            Cardinality({p \in Peticiones :
                            /\ Reenviada(p)
                            /\ despachos[p].client_ip = client_ip
                            /\ despachos[p].current_time <= t
                            /\ t - despachos[p].current_time <= Window})
                <= MaxRequests

====
